---------------------------- MODULE Spec2Model ----------------------------
(***************************************************************************)
(* A model of the statement pipeline of vault_finance:                     *)
(*   core/categorizer.py  TransactionCategorizer, categorize_transaction   *)
(*   core/parser.py       TransactionDeduplicator, parse_pdf_statement     *)
(* Descriptions are strings (sequences of characters); the regular         *)
(* expressions of the source are written as sequences of pattern elements  *)
(* and matched by MatchEnds; amounts are integers in cents; a date is a    *)
(* day number (and an hour where the categorizer reads it).                *)
(***************************************************************************)
EXTENDS Integers, Sequences, FiniteSets, TLC

(***************************************************************************)
(* Characters and strings                                                  *)
(***************************************************************************)
UpperAlpha == "ABCDEFGHIJKLMNOPQRSTUVWXYZ"
LowerAlpha == "abcdefghijklmnopqrstuvwxyz"
Digits == "0123456789"

Ch(s, i) == SubSeq(s, i, i)

CharsOf(s) == { Ch(s, i) : i \in 1..Len(s) }

DigitChars == CharsOf(Digits)
UpperChars == CharsOf(UpperAlpha)
\* \w of the re module: letters, digits and the underscore
WordChars == DigitChars \cup UpperChars \cup CharsOf(LowerAlpha) \cup {"_"}
LowerOf == [c \in UpperChars |->
              Ch(LowerAlpha, CHOOSE i \in 1..Len(UpperAlpha) : Ch(UpperAlpha, i) = c)]

IsDigit(c) == c \in DigitChars
IsUpper(c) == c \in UpperChars
IsSpace(c) == c = " "
IsWordChar(c) == c \in WordChars

lower_char(c) == IF IsUpper(c) THEN LowerOf[c] ELSE c

RECURSIVE lower(_)
\* str.lower(): character by character, the string taken in halves
lower(s) ==
    IF Len(s) <= 1 THEN lower_char(s)
    ELSE lower(SubSeq(s, 1, Len(s) \div 2)) \o lower(SubSeq(s, Len(s) \div 2 + 1, Len(s)))

RECURSIVE lstrip(_)
lstrip(s) == IF s # "" /\ IsSpace(Ch(s, 1)) THEN lstrip(SubSeq(s, 2, Len(s))) ELSE s

RECURSIVE rstrip(_)
rstrip(s) ==
    IF s # "" /\ IsSpace(Ch(s, Len(s))) THEN rstrip(SubSeq(s, 1, Len(s) - 1)) ELSE s

\* str.strip()
strip(s) == lstrip(rstrip(s))

\* needle in haystack
Contains(haystack, needle) ==
    \E i \in 1..(Len(haystack) - Len(needle) + 1) :
        SubSeq(haystack, i, i + Len(needle) - 1) = needle

SetMax(S) == CHOOSE m \in S : \A n \in S : n <= m
SetMin(S) == CHOOSE m \in S : \A n \in S : m <= n
\* the least position of a set of positions, 0 for the empty set
FirstOf(S) == IF S = {} THEN 0 ELSE SetMin(S)

(***************************************************************************)
(* Regular expressions.  A pattern is a sequence of elements; every        *)
(* pattern of the source is compiled or searched with re.IGNORECASE, so a  *)
(* literal (written in lower case) is compared with the lowered text.      *)
(***************************************************************************)
\* lo..hi repetitions of a character class; hi = 0 stands for no upper limit
Lit(s)      == [t |-> "lit",  s |-> s,  lo |-> 0,  hi |-> 0]
Ws(lo)      == [t |-> "ws",   s |-> "", lo |-> lo, hi |-> 0]
Dig(lo, hi) == [t |-> "dig",  s |-> "", lo |-> lo, hi |-> hi]
WordCh(lo)  == [t |-> "word", s |-> "", lo |-> lo, hi |-> 0]
AnyCh(lo)   == [t |-> "any",  s |-> "", lo |-> lo, hi |-> 0]
Alt(alts)   == [t |-> "alt",  s |-> "", lo |-> 0,  hi |-> 0, alts |-> alts]
\* lo or more characters of the set written as the string chars
Cls(chars, lo) == [t |-> "cls", s |-> chars, lo |-> lo, hi |-> 0]
B           == [t |-> "b",    s |-> "", lo |-> 0,  hi |-> 0]
Bol         == [t |-> "bol",  s |-> "", lo |-> 0,  hi |-> 0]
Eol         == [t |-> "eol",  s |-> "", lo |-> 0,  hi |-> 0]

InClass(t, c) ==
    CASE t = "ws"   -> IsSpace(c)
      [] t = "dig"  -> IsDigit(c)
      [] t = "word" -> IsWordChar(c)
      [] t = "any"  -> TRUE

InElement(e, c) == IF e.t = "cls" THEN Contains(e.s, c) ELSE InClass(e.t, c)

\* \b at position i, between the characters i-1 and i of s
WordBoundary(s, i) ==
    LET before == i > 1 /\ IsWordChar(Ch(s, i - 1))
        after  == i <= Len(s) /\ IsWordChar(Ch(s, i))
    IN  before # after

\* the positions j >= i + lo such that s[i..j-1] is a run of the class
RunEnds(e, s, i) ==
    { j \in (i + e.lo)..(IF e.hi > 0 /\ i + e.hi < Len(s) + 1 THEN i + e.hi ELSE Len(s) + 1) :
        \A p \in i..(j - 1) : InElement(e, Ch(s, p)) }

RECURSIVE MatchEnds(_, _, _, _)
\* the positions at which a match of pat[k..] that starts at position i can end
MatchEnds(pat, k, s, i) ==
    IF k > Len(pat) THEN {i}
    ELSE LET e == pat[k] IN
        CASE e.t = "lit" ->
                IF i + Len(e.s) - 1 <= Len(s)
                   /\ lower_char(Ch(s, i)) = Ch(e.s, 1)
                   /\ lower(SubSeq(s, i, i + Len(e.s) - 1)) = e.s
                THEN MatchEnds(pat, k + 1, s, i + Len(e.s))
                ELSE {}
          [] e.t = "b" ->
                IF WordBoundary(s, i) THEN MatchEnds(pat, k + 1, s, i) ELSE {}
          [] e.t = "bol" ->
                IF i = 1 THEN MatchEnds(pat, k + 1, s, i) ELSE {}
          [] e.t = "eol" ->
                IF i = Len(s) + 1 THEN MatchEnds(pat, k + 1, s, i) ELSE {}
          [] e.t = "alt" ->
                UNION { MatchEnds(pat, k + 1, s, j) :
                          j \in UNION { MatchEnds(e.alts[n], 1, s, i) : n \in 1..Len(e.alts) } }
          [] OTHER ->
                UNION { MatchEnds(pat, k + 1, s, j) : j \in RunEnds(e, s, i) }

MatchesAt(pat, s, i) == MatchEnds(pat, 1, s, i) # {}

\* re.search(pat, s) is not None
re_search(pat, s) == \E i \in 1..(Len(s) + 1) : MatchesAt(pat, s, i)

RECURSIVE Words(_)
\* w1\s+w2\s+... for the words of a phrase
Words(ws) ==
    IF Len(ws) = 1 THEN <<Lit(ws[1])>>
    ELSE <<Lit(ws[1]), Ws(1)>> \o Words(Tail(ws))

\* (p1|p2|...) for a sequence of phrases
Phrases(ps) == Alt([n \in 1..Len(ps) |-> Words(ps[n])])

\* the leftmost position from i on at which pat matches, 0 where there is none
first_match(pat, s, i) == FirstOf({ p \in i..(Len(s) + 1) : MatchesAt(pat, s, p) })

\* the end of the match of pat at position p: the quantifiers are greedy (every
\* pattern of the source ends its match at the furthest position it can)
match_end(pat, s, p) == IF p = 0 THEN 0 ELSE SetMax(MatchEnds(pat, 1, s, p))

RECURSIVE re_sub_from(_, _, _, _)
\* the text from position i on with the match s[p..j-1] replaced, then on from
\* the end of the match
replace_match(pat, repl, s, i, p, j) ==
    IF p = 0 THEN SubSeq(s, i, Len(s))
    ELSE SubSeq(s, i, p - 1) \o repl
         \o (IF j > p THEN re_sub_from(pat, repl, s, j) ELSE SubSeq(s, p, Len(s)))

replace_at(pat, repl, s, i, p) == replace_match(pat, repl, s, i, p, match_end(pat, s, p))

\* re.sub(pat, repl, s) for the text from position i on: leftmost match first
re_sub_from(pat, repl, s, i) == replace_at(pat, repl, s, i, first_match(pat, s, i))

re_sub(pat, repl, s) == re_sub_from(pat, repl, s, 1)

\* the ends of the matches of prefix at p that leave a character for the group
group_ends(prefix, s, p) == { j \in MatchEnds(prefix, 1, s, p) : j <= Len(s) }

\* the leftmost position from p on at which prefix(.+) matches, 0 where none
first_group_match(prefix, s, p) ==
    FirstOf({ q \in p..Len(s) : group_ends(prefix, s, q) # {} })

cut_prefix(prefix, s, p) ==
    IF p = 0 THEN s
    ELSE SubSeq(s, 1, p - 1) \o SubSeq(s, SetMax(group_ends(prefix, s, p)), Len(s))

\* re.sub(prefix(.+), r'\1', s): the leftmost match of the prefix that leaves at
\* least one character for the group is cut out; the group runs to the end
re_sub_group(prefix, s) == cut_prefix(prefix, s, first_group_match(prefix, s, 1))

RECURSIVE count_matches_from(_, _, _)
count_from(pat, s, p, j) ==
    IF p = 0 THEN 0
    ELSE 1 + (IF j > p THEN count_matches_from(pat, s, j) ELSE 0)

count_at(pat, s, p) == count_from(pat, s, p, match_end(pat, s, p))

\* len(regex.findall(s)) for the text from position i on, for a pattern that
\* matches no empty string
count_matches_from(pat, s, i) == count_at(pat, s, first_match(pat, s, i))

count_matches(pat, s) == count_matches_from(pat, s, 1)

(***************************************************************************)
(* fuzzywuzzy.fuzz over difflib.SequenceMatcher: ratio, partial_ratio and  *)
(* token_sort_ratio, as the source calls them.                             *)
(***************************************************************************)
RECURSIVE LongestLen(_, _, _)
\* the length of the longest common block of a and b, tried from k downwards
LongestLen(a, b, k) ==
    IF k = 0 THEN 0
    ELSE IF \E i \in 1..(Len(a) - k + 1) : Contains(b, SubSeq(a, i, i + k - 1))
         THEN k
         ELSE LongestLen(a, b, k - 1)

\* the block of length k that starts at position i of a, at its first place in b
block_at(a, b, k, i) ==
    <<i, SetMin({ q \in 1..(Len(b) - k + 1) : SubSeq(b, q, q + k - 1) = SubSeq(a, i, i + k - 1) }), k>>

\* the first block of length k of a that occurs in b
longest_block(a, b, k) ==
    IF k = 0 THEN <<0, 0, 0>>
    ELSE block_at(a, b, k,
                  SetMin({ p \in 1..(Len(a) - k + 1) : Contains(b, SubSeq(a, p, p + k - 1)) }))

\* SequenceMatcher.find_longest_match: the longest block, the one that starts
\* earliest in a and, of those, earliest in b
find_longest_match(a, b) ==
    longest_block(a, b, LongestLen(a, b, IF Len(a) < Len(b) THEN Len(a) ELSE Len(b)))

RECURSIVE get_matching_blocks(_, _, _, _)
\* the blocks to the left of the longest block m, m itself and the blocks to
\* its right
blocks_around(a, b, ao, bo, m) ==
    IF m[3] = 0 THEN <<>>
    ELSE get_matching_blocks(SubSeq(a, 1, m[1] - 1), SubSeq(b, 1, m[2] - 1), ao, bo)
         \o << <<ao + m[1] - 1, bo + m[2] - 1, m[3]>> >>
         \o get_matching_blocks(SubSeq(a, m[1] + m[3], Len(a)), SubSeq(b, m[2] + m[3], Len(b)),
                                ao + m[1] + m[3] - 1, bo + m[2] + m[3] - 1)

\* SequenceMatcher.get_matching_blocks (without the closing dummy block): the
\* blocks <<i, j, n>>, 0-based as in difflib, for a and b shifted by ao and bo
get_matching_blocks(a, b, ao, bo) == blocks_around(a, b, ao, bo, find_longest_match(a, b))

RECURSIVE SumSizes(_)
SumSizes(blocks) == IF blocks = <<>> THEN 0 ELSE Head(blocks)[3] + SumSizes(Tail(blocks))

\* the number of matched characters M of SequenceMatcher.ratio() = 2.0 * M / T
Matches(a, b) == SumSizes(get_matching_blocks(a, b, 0, 0))

\* utils.intr(100 * 2.0 * m / t): int(round(.)), halves to the even neighbour
intr_ratio(m, t) ==
    LET q == (200 * m) \div t
        r == (200 * m) % t
    IN  IF 2 * r > t \/ (2 * r = t /\ q % 2 = 1) THEN q + 1 ELSE q

\* fuzz.ratio under its decorators check_for_equivalence and check_empty_string
fuzz_ratio(s1, s2) ==
    IF s1 = s2 THEN 100
    ELSE IF Len(s1) = 0 \/ Len(s2) = 0 THEN 0
    ELSE intr_ratio(Matches(s1, s2), Len(s1) + Len(s2))

\* the function f with every value computed
Tabulated(f) == f @@ <<>>

\* partial_ratio: long_start = block[1] - block[0] if that is positive, else 0,
\* for the matching blocks and the closing dummy block
window_starts(blocks) ==
    { IF blocks[n][2] - blocks[n][1] > 0 THEN blocks[n][2] - blocks[n][1] ELSE 0 :
        n \in 1..Len(blocks) }

\* longer[long_start:long_start + len(shorter)], the slice cut at the end of the string
window(longer, size, long_start) ==
    SubSeq(longer, long_start + 1,
           IF long_start + size < Len(longer) THEN long_start + size ELSE Len(longer))

\* partial_ratio over the windows: m and t give, per window start, the matched
\* characters M and the total length T of the ratio r = 2.0 * M / T; 100 if some
\* r > .995, else the greatest r as a rounded percentage
best_window_ratio(m, t, starts) ==
    IF \E st \in starts : 2000 * m[st] > 995 * t[st] THEN 100
    ELSE LET best == CHOOSE st \in starts :
                         \A o \in starts : m[o] * t[st] <= m[st] * t[o]
         IN  intr_ratio(m[best], t[best])

windows_ratio(shorter, longer, starts) ==
    best_window_ratio(
        Tabulated([st \in starts |-> Matches(shorter, window(longer, Len(shorter), st))]),
        [st \in starts |-> Len(shorter) + Len(window(longer, Len(shorter), st))],
        starts)

shorter_longer_ratio(shorter, longer) ==
    windows_ratio(shorter, longer,
                  window_starts(get_matching_blocks(shorter, longer, 0, 0)
                                \o << <<Len(shorter), Len(longer), 0>> >>))

\* fuzz.partial_ratio: the shorter string against the windows of the longer one
\* that the matching blocks point at
fuzz_partial_ratio(s1, s2) ==
    IF s1 = s2 THEN 100
    ELSE IF Len(s1) = 0 \/ Len(s2) = 0 THEN 0
    ELSE IF Len(s1) <= Len(s2) THEN shorter_longer_ratio(s1, s2)
    ELSE shorter_longer_ratio(s2, s1)

\* StringProcessor.replace_non_letters_non_numbers_with_whitespace: \W becomes " "
RECURSIVE replace_non_word(_)
replace_non_word(s) ==
    IF s = "" THEN ""
    ELSE IF Len(s) = 1 THEN (IF IsWordChar(s) THEN s ELSE " ")
    ELSE replace_non_word(SubSeq(s, 1, Len(s) \div 2))
         \o replace_non_word(SubSeq(s, Len(s) \div 2 + 1, Len(s)))

\* utils.full_process
full_process(s) == strip(lower(replace_non_word(s)))

RECURSIVE split(_)
\* str.split(): the whitespace-separated tokens
split(s) ==
    LET t == lstrip(s) IN
    IF t = "" THEN <<>>
    ELSE LET ends == { i \in 1..Len(t) : IsSpace(Ch(t, i)) }
             e    == IF ends = {} THEN Len(t) + 1 ELSE SetMin(ends)
         IN  <<SubSeq(t, 1, e - 1)>> \o split(SubSeq(t, e, Len(t)))

\* the code-point order of the characters full_process leaves in a token
CharOrder == "0123456789_abcdefghijklmnopqrstuvwxyz"
Ord(c) == CHOOSE i \in 1..Len(CharOrder) : Ch(CharOrder, i) = c

RECURSIVE StrLess(_, _)
\* a < b for two strings
StrLess(a, b) ==
    IF b = "" THEN FALSE
    ELSE IF a = "" THEN TRUE
    ELSE IF Ch(a, 1) = Ch(b, 1) THEN StrLess(SubSeq(a, 2, Len(a)), SubSeq(b, 2, Len(b)))
    ELSE Ord(Ch(a, 1)) < Ord(Ch(b, 1))

RECURSIVE Insert(_, _)
Insert(tok, sorted) ==
    IF sorted = <<>> THEN <<tok>>
    ELSE IF StrLess(Head(sorted), tok) THEN <<Head(sorted)>> \o Insert(tok, Tail(sorted))
    ELSE <<tok>> \o sorted

RECURSIVE SortTokens(_)
\* sorted(tokens)
SortTokens(toks) == IF toks = <<>> THEN <<>> ELSE Insert(Head(toks), SortTokens(Tail(toks)))

RECURSIVE Join(_)
\* " ".join(tokens)
Join(toks) ==
    IF toks = <<>> THEN ""
    ELSE IF Len(toks) = 1 THEN Head(toks)
    ELSE Head(toks) \o " " \o Join(Tail(toks))

\* fuzz._process_and_sort
process_and_sort(s) == strip(Join(SortTokens(split(full_process(s)))))

\* fuzz.token_sort_ratio
fuzz_token_sort_ratio(s1, s2) == fuzz_ratio(process_and_sort(s1), process_and_sort(s2))

(***************************************************************************)
(* Python values as the categorizer receives them                          *)
(***************************************************************************)
PyStr(s)           == [py |-> "str",      s |-> s,  n |-> 0, h |-> 0]
PyNone             == [py |-> "None",     s |-> "", n |-> 0, h |-> 0]
PyInt(n)           == [py |-> "int",      s |-> "", n |-> n, h |-> 0]
\* a float amount, in cents
PyFloat(c)         == [py |-> "float",    s |-> "", n |-> c, h |-> 0]
\* a datetime: the proleptic ordinal of its day, and its hour
PyDatetime(day, h) == [py |-> "datetime", s |-> "", n |-> day, h |-> h]
PyList             == [py |-> "list",     s |-> "", n |-> 0, h |-> 0]

RECURSIVE ToDecimal(_)
\* str(n) for a natural number
ToDecimal(n) ==
    IF n < 10 THEN Ch(Digits, n + 1)
    ELSE ToDecimal(n \div 10) \o Ch(Digits, (n % 10) + 1)

\* str(value)
py_str(value) ==
    CASE value.py = "str"  -> value.s
      [] value.py = "None" -> "None"
      [] value.py = "int"  -> ToDecimal(value.n)
      [] value.py = "list" -> "[]"

RECURSIVE DigitsValue(_)
DigitsValue(s) ==
    IF s = "" THEN 0
    ELSE 10 * DigitsValue(SubSeq(s, 1, Len(s) - 1))
         + ((CHOOSE i \in 1..10 : Ch(Digits, i) = Ch(s, Len(s))) - 1)

AllDigits(s) == s # "" /\ \A i \in 1..Len(s) : IsDigit(Ch(s, i))

\* the cents of the digits after the decimal point (the model passes no
\* string with more than two of them)
fraction_cents(digits) ==
    IF Len(digits) = 0 THEN 0
    ELSE IF Len(digits) = 1 THEN 10 * DigitsValue(digits)
    ELSE DigitsValue(SubSeq(digits, 1, 2))

\* float() of digits with a decimal point at position dot
float_of_decimal(s, dot) ==
    IF (dot > 1 => AllDigits(SubSeq(s, 1, dot - 1)))
       /\ (dot < Len(s) => AllDigits(SubSeq(s, dot + 1, Len(s))))
       /\ Len(s) > 1
    THEN [error |-> "", n |-> 100 * DigitsValue(SubSeq(s, 1, dot - 1))
                              + fraction_cents(SubSeq(s, dot + 1, Len(s)))]
    ELSE [error |-> "ValueError", n |-> 0]

\* float() of a string without a sign
float_of_unsigned(s) ==
    IF AllDigits(s) THEN [error |-> "", n |-> 100 * DigitsValue(s)]
    ELSE IF \E i \in 1..Len(s) : Ch(s, i) = "."
    THEN float_of_decimal(s, CHOOSE i \in 1..Len(s) : Ch(s, i) = "." /\ \A j \in 1..(i - 1) : Ch(s, j) # ".")
    ELSE [error |-> "ValueError", n |-> 0]

minus(converted) == [error |-> converted.error, n |-> -converted.n]

\* float(s), in cents; error names the exception when float() raises one.  Of
\* the strings, the decimals with an optional sign ("12", "-12.50", ".5") are
\* read; the model passes no string in another notation float() accepts
float_of_str(s) ==
    IF s # "" /\ Ch(s, 1) = "-" THEN minus(float_of_unsigned(SubSeq(s, 2, Len(s))))
    ELSE IF s # "" /\ Ch(s, 1) = "+" THEN float_of_unsigned(SubSeq(s, 2, Len(s)))
    ELSE float_of_unsigned(s)

py_float(value) ==
    CASE value.py = "float" -> [error |-> "", n |-> value.n]
      [] value.py = "int"   -> [error |-> "", n |-> 100 * value.n]
      [] value.py = "str"   -> float_of_str(strip(value.s))
      [] OTHER -> [error |-> "TypeError", n |-> 0]

\* bool(value)
py_truth(value) ==
    CASE value.py = "None" -> FALSE
      [] value.py = "str"  -> value.s # ""
      [] value.py = "int"  -> value.n # 0
      [] value.py = "float" -> value.n # 0
      [] value.py = "list" -> FALSE
      [] OTHER -> TRUE

(***************************************************************************)
(* core/parser.py: clean_amount                                            *)
(***************************************************************************)
RECURSIVE keep_numeric(_)
\* re.sub(r'[^\d.\-]', '', amount_str)
keep_numeric(s) ==
    IF s = "" THEN ""
    ELSE (IF IsDigit(Ch(s, 1)) \/ Ch(s, 1) \in {".", "-"} THEN Ch(s, 1) ELSE "")
         \o keep_numeric(SubSeq(s, 2, Len(s)))

\* amount_str.startswith('(') and amount_str.endswith(')')
is_negative(s) == Ch(s, 1) = "(" /\ Ch(s, Len(s)) = ")"

\* float(cleaned) if cleaned else 0.0, and 0.0 where float() raises ValueError
float_or_zero(cleaned) ==
    IF cleaned = "" \/ float_of_str(cleaned).error = "ValueError" THEN 0
    ELSE float_of_str(cleaned).n

\* apply_parentheses as it would be with `value = -value` for `value = -abs(value)`
negate_in_parentheses(negative, value) == IF negative THEN -value ELSE value

\* clean_amount lines 421-422: value = -abs(value) for an amount in parentheses
apply_parentheses(negative, value) ==
    IF negative THEN (IF value < 0 THEN value ELSE -value) ELSE value

\* clean_amount lines 409-426 for the text of the amount
clean_stripped(s) ==
    IF s = "" THEN 0 ELSE apply_parentheses(is_negative(s), float_or_zero(keep_numeric(s)))

\* clean_amount, in cents
clean_amount(amount_str) ==
    IF ~py_truth(amount_str) THEN 0 ELSE clean_stripped(strip(py_str(amount_str)))

(***************************************************************************)
(* Dates: datetime.strptime, parse_date and the year of a statement        *)
(***************************************************************************)
\* a date; the time of day of a parsed date is midnight
Date(y, m, d) == [year |-> y, month |-> m, day |-> d]

\* None, where a date is expected
NoDate == Date(0, 0, 0)

is_leap(y) == y % 4 = 0 /\ (y % 100 # 0 \/ y % 400 = 0)

days_in_month(y, m) ==
    IF m = 2 THEN (IF is_leap(y) THEN 29 ELSE 28)
    ELSE IF m \in {4, 6, 9, 11} THEN 30 ELSE 31

days_before_year(y) == (y - 1) * 365 + (y - 1) \div 4 - (y - 1) \div 100 + (y - 1) \div 400

RECURSIVE days_before_month(_, _)
days_before_month(y, m) ==
    IF m = 1 THEN 0 ELSE days_before_month(y, m - 1) + days_in_month(y, m - 1)

\* the day of a date as a proleptic ordinal: two datetimes, the second of them
\* datetime.now() plus whole days, are compared by their days (a parsed date
\* is at midnight, so it is later only where its day is later)
toordinal(dt) == days_before_year(dt.year) + days_before_month(dt.year, dt.month) + dt.day

\* dt.replace(year=y); NoDate where it raises ValueError (no such day in y)
replace_year(dt, y) ==
    IF dt.day > days_in_month(y, dt.month) THEN NoDate ELSE Date(y, dt.month, dt.day)

\* the names %b and %B compare with, whatever the case of the text
month_abbr == <<"jan", "feb", "mar", "apr", "may", "jun",
                "jul", "aug", "sep", "oct", "nov", "dec">>
month_name == <<"january", "february", "march", "april", "may", "june",
                "july", "august", "september", "october", "november", "december">>

\* a format: directives (written without the %) with one separator between
\* them; "d," is %d followed by a comma
Fmt(sep, fields) == [sep |-> sep, fields |-> fields]

formats_with_year ==
    << Fmt("/", <<"m", "d", "Y">>), Fmt("/", <<"m", "d", "y">>),
       Fmt("/", <<"Y", "m", "d">>), Fmt("-", <<"Y", "m", "d">>),
       Fmt("-", <<"m", "d", "Y">>), Fmt("-", <<"m", "d", "y">>),
       Fmt(" ", <<"b", "d,", "Y">>), Fmt(" ", <<"B", "d,", "Y">>) >>

formats_without_year ==
    << Fmt("/", <<"m", "d">>), Fmt("-", <<"m", "d">>),
       Fmt(" ", <<"b", "d">>), Fmt(" ", <<"B", "d">>) >>

RECURSIVE split_on(_, _)
\* the parts of s between its separators; a space in a format stands for a
\* run of white space, so the spaces after a space belong to the separator
split_on(s, sep) ==
    LET p == FirstOf({ i \in 1..Len(s) : Ch(s, i) = sep })
        rest == SubSeq(s, p + 1, Len(s))
    IN  IF p = 0 THEN <<s>>
        ELSE <<SubSeq(s, 1, p - 1)>> \o split_on(IF sep = " " THEN lstrip(rest) ELSE rest, sep)

IndexIn(names, text) == FirstOf({ i \in 1..Len(names) : names[i] = text })

RECURSIVE field_ok(_, _)
\* whether a part of the text is read by a directive
field_ok(kind, part) ==
    CASE kind = "m" -> Len(part) \in 1..2 /\ AllDigits(part) /\ DigitsValue(part) \in 1..12
      [] kind = "d" -> \/ Len(part) \in 1..2 /\ AllDigits(part) /\ DigitsValue(part) \in 1..31
                       \/ Len(part) = 2 /\ Ch(part, 1) = " " /\ IsDigit(Ch(part, 2))
                          /\ Ch(part, 2) # "0"
      [] kind = "d," -> /\ part # "" /\ Ch(part, Len(part)) = ","
                        /\ field_ok("d", SubSeq(part, 1, Len(part) - 1))
      [] kind = "Y" -> Len(part) = 4 /\ AllDigits(part) /\ DigitsValue(part) >= 1
      [] kind = "y" -> Len(part) = 2 /\ AllDigits(part)
      [] kind = "b" -> IndexIn(month_abbr, lower(part)) # 0
      [] kind = "B" -> IndexIn(month_name, lower(part)) # 0

RECURSIVE field_value(_, _)
\* the number a directive reads from its part; %y reads 00..68 as years of
\* the 2000s and 69..99 as years of the 1900s
field_value(kind, part) ==
    CASE kind = "d," -> field_value("d", SubSeq(part, 1, Len(part) - 1))
      [] kind = "y" -> IF DigitsValue(part) < 69
                       THEN 2000 + DigitsValue(part) ELSE 1900 + DigitsValue(part)
      [] kind = "b" -> IndexIn(month_abbr, lower(part))
      [] kind = "B" -> IndexIn(month_name, lower(part))
      [] OTHER -> DigitsValue(lstrip(part))

\* the value of the first field of one of the kinds, otherwise a default
field_of(fmt, parts, kinds, default) ==
    LET i == FirstOf({ k \in 1..Len(fmt.fields) : fmt.fields[k] \in kinds })
    IN  IF i = 0 THEN default ELSE field_value(fmt.fields[i], parts[i])

\* datetime.strptime(date_str, fmt); NoDate where it raises ValueError.  The
\* day is checked in the year the text gives, 1900 where the format has none.
strptime(date_str, fmt) ==
    LET parts == split_on(date_str, fmt.sep) IN
    IF \/ Len(parts) # Len(fmt.fields)
       \/ \E i \in 1..Len(parts) : ~field_ok(fmt.fields[i], parts[i])
    THEN NoDate
    ELSE replace_year(Date(1900,
                           field_of(fmt, parts, {"m", "b", "B"}, 1),
                           field_of(fmt, parts, {"d", "d,"}, 1)),
                      field_of(fmt, parts, {"Y", "y"}, 1900))

\* zero or one character, and exactly one character, of a set
Opt(chars)   == [t |-> "cls", s |-> chars, lo |-> 0, hi |-> 1]
OneOf(chars) == [t |-> "cls", s |-> chars, lo |-> 1, hi |-> 1]

\* ^(date|trans|transaction)\s*:?\s*  The alternative transaction never takes
\* part in a match: trans comes before it and what follows can be empty.
date_prefix == <<Bol, Alt(<< <<Lit("date")>>, <<Lit("trans")>> >>), Ws(0), Opt(":"), Ws(0)>>

\* parse_date: the text the formats are tried on
cleaned_date(date_str) ==
    strip(re_sub(<<OneOf("(),")>>, "", re_sub(date_prefix, "", strip(date_str))))

\* the year of a date below 100 moved into 1950..2049
two_digit_year(dt) ==
    IF dt.year >= 100 THEN dt
    ELSE IF dt.year < 50 THEN replace_year(dt, dt.year + 2000)
    ELSE replace_year(dt, dt.year + 1900)

\* the days into the future a date without a year may lie
FutureDays == 30

\* a date read by a format without a year (NoDate: the format does not read
\* the text) gets the year of the statement, or the year before where that
\* lies more than FutureDays after current_date
in_statement_year(dt, year, current_date) ==
    IF dt = NoDate \/ replace_year(dt, year) = NoDate THEN NoDate
    ELSE IF toordinal(replace_year(dt, year)) > toordinal(current_date) + FutureDays
    THEN replace_year(dt, year - 1)
    ELSE replace_year(dt, year)

RECURSIVE with_year(_, _)
\* the first of the formats with a year, from the k-th on, that reads the text
with_year(date_str, k) ==
    IF k > Len(formats_with_year) THEN NoDate
    ELSE IF strptime(date_str, formats_with_year[k]) # NoDate
    THEN two_digit_year(strptime(date_str, formats_with_year[k]))
    ELSE with_year(date_str, k + 1)

RECURSIVE without_year(_, _, _, _)
\* the first of the formats without a year, from the k-th on, that reads it
without_year(date_str, k, year, current_date) ==
    IF k > Len(formats_without_year) THEN NoDate
    ELSE IF in_statement_year(strptime(date_str, formats_without_year[k]),
                              year, current_date) # NoDate
    THEN in_statement_year(strptime(date_str, formats_without_year[k]), year, current_date)
    ELSE without_year(date_str, k + 1, year, current_date)

\* parse_date(date_str, statement_year) called on the day current_date
parse_date(date_str, year, current_date) ==
    IF strip(date_str) = "" THEN NoDate
    ELSE IF with_year(cleaned_date(date_str), 1) # NoDate
    THEN with_year(cleaned_date(date_str), 1)
    ELSE without_year(cleaned_date(date_str), 1, year, current_date)

\* CHASE_PATTERNS['date_patterns'], in their order
date_patterns ==
    << <<B, Dig(1, 2), Lit("/"), Dig(1, 2), B>>,
       <<B, Dig(1, 2), Lit("/"), Dig(1, 2), Lit("/"), Dig(2, 4), B>>,
       <<B, [t |-> "cls", s |-> UpperAlpha \o LowerAlpha, lo |-> 3, hi |-> 3],
         Ws(1), Dig(1, 2), B>>,
       <<B, [t |-> "word", s |-> "", lo |-> 3, hi |-> 9],
         Ws(1), Dig(1, 2), Opt(","), Ws(0), Dig(2, 4), B>> >>

\* group(1) of re.search(pattern, text): each of these patterns is its group
group_1(pattern, text) ==
    SubSeq(text, first_match(pattern, text, 1),
           match_end(pattern, text, first_match(pattern, text, 1)) - 1)

RECURSIVE date_search(_, _, _, _)
\* extract_transactions_from_text: date_found after the date patterns from the
\* k-th on have been tried on a line
date_search(text, k, year, current_date) ==
    IF k > Len(date_patterns) THEN NoDate
    ELSE IF /\ re_search(date_patterns[k], text)
            /\ parse_date(group_1(date_patterns[k], text), year, current_date) # NoDate
    THEN parse_date(group_1(date_patterns[k], text), year, current_date)
    ELSE date_search(text, k + 1, year, current_date)

\* \b(20\d{2})\b
year_pattern == <<B, Lit("20"), Dig(2, 2), B>>

\* find_statement_period(text)[2], the year of the statement
find_statement_period(text, current_date) ==
    IF re_search(year_pattern, text)
    THEN DigitsValue(group_1(year_pattern, text))
    ELSE current_date.year

\* datetime.weekday(): Monday is 0
weekday(day) == (day + 6) % 7

(***************************************************************************)
(* The inputs the model draws from                                         *)
(***************************************************************************)
\* a day as a proleptic ordinal; Day(0) is Saturday 2024-06-15
Day(n) == 739052 + n

Txn(date, description, amount) ==
    [date |-> date, description |-> description, amount |-> amount]

\* the transactions statements are made of (amounts in cents)
PaymentA  == Txn(Day(0),   "AUTOPAY PAYMENT THANK YOU",  -50000)
ChargeB   == Txn(Day(2),   "COFFEE SHOP",                -51000)
ChargeB2  == Txn(Day(3),   "COFEE SHOP",                 -51000)
ChargeB3  == Txn(Day(2),   "Coffee Shop #2",             -51000)
ChargeC   == Txn(Day(-45), "WALMART #4521",              -30000)
TransferD == Txn(Day(1),   "ONLINE TRANSFER TO SAVINGS", -45000)
TransferE == Txn(Day(1),   "Zelle from Bob",              45000)
PaymentG  == Txn(Day(1),   "AUTOPAY TRANSFER TO CARD",   -45000)
IncomeI   == Txn(Day(0),   "PAYROLL DEPOSIT",             51000)

\* description[:100] and len(description) > 2 of extract_transactions_from_text
MaxDescription == 100
MinDescription == 2
\* abs(amount_found) < 0.01 of extract_transactions_from_text, in cents
MinAmount == 1

\* a description of 104 characters, and what is kept of it
LongDescription ==
    "STARBUCKS STORE 00123 SEATTLE WA CARD 4417 REF 88120045 AUTH 551203 TERMINAL 0092 CONTACTLESS TAP LANE 7"
KeptDescription == SubSeq(LongDescription, 1, MaxDescription)

\* what the patterns find in lines that are no transactions: a description of
\* two characters, an amount of 0.00, and a description that is too long
ShortLine == Txn(Day(4), "AB", -1200)
ZeroLine  == Txn(Day(4), "VOID ENTRY", 0)
CentLine  == Txn(Day(4), "COFFEE SHOP", 1)
LongLine  == Txn(Day(4), LongDescription, -1200)

RowUniverse ==
    {PaymentA, ChargeB, ChargeB2, ChargeB3, ChargeC, TransferD, TransferE, PaymentG,
     IncomeI}

\* the descriptions categorize_transaction is called with, beside those of the rows
CatDescriptions ==
    { PyStr("WALMART #4521 05/10"), PyStr("CHASE CREDIT CRD PAYMENT THANK YOU"),
      PyStr("Hospital Of Springfield"), PyStr("Apple Store"),
      PyStr("AUTOPAY TRANSFER FEE WALMART"), PyStr("PAYROLL DEPOSIT ZELLE"),
      PyStr("CC PAYMENT"), PyStr("ATM FEE"), PyStr("movie night"), PyStr("snack"),
      PyStr("recurring gym"), PyStr("xyz corp"), PyStr(""), PyNone, PyInt(12345) }

CatAmounts ==
    { PyFloat(-4217), PyFloat(25000), PyFloat(-520000), PyFloat(0), PyFloat(300),
      PyNone, PyStr("abc"), PyStr("12.50"), PyList }

\* Friday 2024-03-01 at midnight, Monday 2024-06-10 at 7, no date, a date as text
CatDates ==
    { PyDatetime(Day(-106), 0), PyDatetime(Day(-5), 7), PyNone, PyStr("2024-03-01") }

\* the most calls of categorize_transaction in a row
MaxCalls == 3

\* the rows categorize_transaction is called with after the first
NextCalls ==
    { [description |-> PyStr("xyz corp"), amount |-> PyFloat(-4217), date |-> PyNone],
      [description |-> PyStr("WALMART #4521"), amount |-> PyFloat(-4217), date |-> PyNone] }

\* the texts clean_amount is called with: a number, or what is no number, as
\* it stands, with a currency symbol, in parentheses, between blanks
AmountTexts ==
    { "123.45", "1,234.56", "0.01", "5", ".5", "5.", "-7.25", "0.00",
      "1.2.3", "12-34", "-", "", "abc", "--5", "N/A" }

AmountArguments ==
    { PyStr(b) : b \in AmountTexts }
    \cup { PyStr("$" \o b) : b \in AmountTexts }
    \cup { PyStr("-$" \o b) : b \in AmountTexts }
    \cup { PyStr("(" \o b \o ")") : b \in AmountTexts }
    \cup { PyStr("($" \o b \o ")") : b \in AmountTexts }
    \cup { PyStr("  " \o b \o " ") : b \in AmountTexts }
    \cup { PyNone, PyInt(0), PyInt(12), PyList }

(***************************************************************************)
(* core/categorizer.py                                                     *)
(***************************************************************************)
\* None, where a function returns Optional[str]; as falsy as None
NoCategory == ""

SPENDING_CATEGORIES == <<
    [category |-> "Food & Dining", keywords |-> <<
        "restaurant", "cafe", "bistro", "diner", "grill", "kitchen", "eatery",
        "pizzeria", "buffet", "mcdonalds", "burger king", "kfc", "taco bell", "subway",
        "chipotle", "panera", "chick-fil-a", "starbucks", "dunkin", "coffee",
        "espresso", "latte", "doordash", "ubereats", "grubhub", "postmates",
        "seamless", "delivery", "bar", "pub", "brewery", "tavern", "lounge",
        "wine bar", "dining", "food", "pizza">>],
    [category |-> "Groceries", keywords |-> <<
        "walmart", "target", "costco", "sams club", "bjs", "aldi", "food lion",
        "whole foods", "sprouts", "fresh market", "trader joes", "grocery", "market",
        "supermarket", "food store", "safeway", "kroger", "publix">>],
    [category |-> "Transportation", keywords |-> <<
        "shell", "exxon", "bp", "chevron", "mobil", "citgo", "gas station", "fuel",
        "gas", "uber", "lyft", "taxi", "cab", "parking", "garage", "meter", "valet",
        "metro", "bus", "train", "transit", "mta", "bart", "airline", "airways",
        "flight", "delta", "american airlines", "united", "southwest", "oil change",
        "tire", "mechanic", "auto repair", "car wash">>],
    [category |-> "Shopping", keywords |-> <<
        "amazon", "ebay", "paypal", "apple.com", "google play", "target", "walmart",
        "kohls", "jcpenney", "sears", "nordstrom", "best buy", "apple store",
        "microsoft", "gamestop", "bestbuy", "gap", "old navy", "h&m", "zara", "nike",
        "adidas", "home depot", "lowes", "ikea", "bed bath beyond", "pier 1", "store",
        "shop", "retail", "purchase", "buy", "mall", "outlet">>],
    [category |-> "Bills & Utilities", keywords |-> <<
        "electric", "electricity", "water", "gas company", "utility", "bill",
        "payment", "verizon", "att", "t-mobile", "sprint", "comcast", "xfinity",
        "internet", "cable", "phone", "insurance", "allstate", "geico", "progressive",
        "state farm", "rent", "mortgage", "property management", "hoa">>],
    [category |-> "Healthcare", keywords |-> <<
        "hospital", "medical center", "clinic", "doctor", "physician", "medical",
        "health", "cvs", "walgreens", "rite aid", "pharmacy", "prescription", "dental",
        "dentist", "orthodontist", "eye care", "optometry", "vision", "eyeglasses">>],
    [category |-> "Entertainment", keywords |-> <<
        "netflix", "hulu", "disney+", "amazon prime", "spotify", "apple music",
        "movie", "cinema", "theater", "amc", "regal", "steam", "playstation", "xbox",
        "nintendo", "gaming", "game", "gym", "fitness", "yoga", "pilates",
        "planet fitness", "24 hour fitness">>],
    [category |-> "Banking & Fees", keywords |-> <<
        "fee", "charge", "overdraft", "maintenance", "service charge", "wire fee",
        "atm", "cash withdrawal", "atm fee", "interest charge", "finance charge",
        "late fee">>],
    [category |-> "Income", keywords |-> <<
        "payroll", "salary", "direct deposit", "paycheck", "wages", "refund",
        "tax refund", "dividend", "interest earned", "cashback", "reward", "deposit",
        "reversal", "return", "credit", "income">>],
    [category |-> "Personal Care", keywords |-> <<
        "salon", "spa", "barber", "nail", "massage", "cosmetics", "skincare", "shampoo">>],
    [category |-> "Education", keywords |-> <<
        "university", "college", "school", "tuition", "bookstore", "textbook",
        "school supply">>],
    [category |-> "Travel", keywords |-> <<
        "hotel", "motel", "resort", "airbnb", "booking.com", "airline", "train",
        "bus ticket", "car rental">>] >>

known_merchants == <<
    <<"amazon", "Shopping">>,
    <<"amzn", "Shopping">>,
    <<"apple", "Electronics">>,
    <<"microsoft", "Electronics">>,
    <<"google", "Electronics">>,
    <<"paypal", "Transfer">>,
    <<"walmart", "Groceries">>,
    <<"target", "Shopping">>,
    <<"costco", "Groceries">>,
    <<"best buy", "Electronics">>,
    <<"home depot", "Shopping">>,
    <<"lowes", "Shopping">>,
    <<"starbucks", "Food & Dining">>,
    <<"mcdonalds", "Food & Dining">>,
    <<"subway", "Food & Dining">>,
    <<"chipotle", "Food & Dining">>,
    <<"pizza", "Food & Dining">>,
    <<"shell", "Transportation">>,
    <<"exxon", "Transportation">>,
    <<"chevron", "Transportation">>,
    <<"bp", "Transportation">>,
    <<"uber", "Transportation">>,
    <<"lyft", "Transportation">>,
    <<"netflix", "Entertainment">>,
    <<"spotify", "Entertainment">>,
    <<"hulu", "Entertainment">>,
    <<"disney", "Entertainment">>,
    <<"walgreens", "Healthcare">>,
    <<"cvs", "Healthcare">>,
    <<"rite aid", "Healthcare">>,
    <<"pharmacy", "Healthcare">> >>

\* _compile_priority_patterns
income_patterns ==
    <<B, Phrases(<< <<"deposit">>, <<"payroll">>, <<"salary">>, <<"refund">>, <<"reversal">>,
                    <<"return">>, <<"credit">>, <<"direct", "deposit">>, <<"dividend">>,
                    <<"interest", "earned">>, <<"payment", "received">>,
                    <<"reimbursement">> >>), B>>

transfer_patterns ==
    <<B, Phrases(<< <<"transfer">>, <<"zelle">>, <<"venmo">>, <<"cash", "app">>,
                    <<"paypal", "transfer">>, <<"wire", "transfer">>, <<"p2p">>,
                    <<"person", "to", "person">> >>), B>>

cc_payment_patterns ==
    <<B, Phrases(<< <<"payment", "thank", "you">>, <<"online", "payment">>, <<"autopay">>,
                    <<"automatic", "payment">>, <<"credit", "card", "payment">>,
                    <<"cc", "payment">>, <<"electronic", "payment">> >>), B>>

fee_patterns ==
    <<B, Phrases(<< <<"fee">>, <<"charge">>, <<"overdraft">>, <<"maintenance">>,
                    <<"service", "charge">>, <<"wire", "fee">>, <<"atm", "fee">>,
                    <<"late", "fee">> >>), B>>

\* config/patterns.py MERCHANT_PATTERNS, in the order of the dictionary: what
\* matches pattern becomes replacement; group is TRUE where the pattern ends in
\* (.+) and the replacement is the group
MERCHANT_PATTERNS == <<
    [pattern |-> <<Lit("amazon.com*"), WordCh(1)>>,         replacement |-> "Amazon",     group |-> FALSE],
    [pattern |-> <<Lit("amzn"), Ws(1), Lit("mktp")>>,       replacement |-> "Amazon",     group |-> FALSE],
    [pattern |-> <<Lit("wal-mart"), AnyCh(0)>>,             replacement |-> "Walmart",    group |-> FALSE],
    [pattern |-> <<Lit("target"), Ws(1), Dig(1, 0)>>,       replacement |-> "Target",     group |-> FALSE],
    [pattern |-> <<Lit("starbucks"), AnyCh(0)>>,            replacement |-> "Starbucks",  group |-> FALSE],
    [pattern |-> <<Lit("mcdonald's"), AnyCh(0)>>,           replacement |-> "McDonald's", group |-> FALSE],
    [pattern |-> <<Lit("tst*"), Ws(0)>>,                    replacement |-> "",           group |-> TRUE],
    [pattern |-> <<Lit("sq*"), Ws(0)>>,                     replacement |-> "",           group |-> TRUE],
    [pattern |-> <<Dig(4, 4), Ws(1)>>,                      replacement |-> "",           group |-> TRUE] >>

\* normalize_merchant_name lines 139-151: the prefixes, suffixes and numbers cut
\* from the description, in this order
cleanup_patterns == <<
    [pattern |-> <<Bol, Phrases(<< <<"debit", "card">>, <<"credit", "card">>,
                                   <<"online">>, <<"web">> >>), Ws(1)>>,
     replacement |-> "", group |-> FALSE],
    [pattern |-> <<Ws(1), Phrases(<< <<"payment">>, <<"purchase">>,
                                     <<"transaction">> >>), Eol>>,
     replacement |-> "", group |-> FALSE],
    [pattern |-> <<Lit("#"), Dig(1, 0)>>,   replacement |-> "", group |-> FALSE],
    [pattern |-> <<Dig(3, 4), Ws(0), Eol>>, replacement |-> "", group |-> FALSE],
    [pattern |-> <<Bol, Dig(2, 4), Ws(1)>>, replacement |-> "", group |-> FALSE] >>

RECURSIVE re_sub_each(_, _, _)
\* description = re.sub(pattern, replacement, description, flags=re.IGNORECASE)
\* for the substitutions from entry k on; no pattern matches in the empty string
re_sub_each(substitutions, k, description) ==
    IF k > Len(substitutions) \/ description = "" THEN description
    ELSE re_sub_each(substitutions, k + 1,
                     IF substitutions[k].group
                     THEN re_sub_group(substitutions[k].pattern, description)
                     ELSE re_sub(substitutions[k].pattern, substitutions[k].replacement,
                                 description))

\* normalize_merchant_name lines 136-137
apply_merchant_patterns(description) == re_sub_each(MERCHANT_PATTERNS, 1, description)

\* normalize_merchant_name, for a string
normalize_merchant_name(description) ==
    strip(re_sub_each(cleanup_patterns, 1, apply_merchant_patterns(strip(description))))

max(x, y) == IF x >= y THEN x ELSE y

\* the score fuzzy_match_merchant gives the merchant of entry k
merchant_score(k, desc_lower) ==
    max(fuzz_partial_ratio(known_merchants[k][1], desc_lower),
        fuzz_token_sort_ratio(known_merchants[k][1], desc_lower))

RECURSIVE best_merchant(_, _, _, _, _)
\* the loop of fuzzy_match_merchant over known_merchants from entry k on
best_merchant(scores, threshold, k, best_match, best_score) ==
    IF k > Len(known_merchants) THEN best_match
    ELSE IF scores[k] >= threshold /\ scores[k] > best_score
         THEN best_merchant(scores, threshold, k + 1, known_merchants[k][2], scores[k])
         ELSE best_merchant(scores, threshold, k + 1, best_match, best_score)

DefaultThreshold == 85

\* the scores of all merchants of known_merchants
merchant_scores(desc_lower) ==
    Tabulated([k \in 1..Len(known_merchants) |-> merchant_score(k, desc_lower)])

\* fuzzy_match_merchant, for a string
fuzzy_match_merchant(description, threshold) ==
    IF strip(description) = "" THEN NoCategory
    ELSE best_merchant(merchant_scores(lower(description)),
                       IF 0 <= threshold /\ threshold <= 100
                       THEN threshold ELSE DefaultThreshold,
                       1, NoCategory, 0)

AnyIn(words, text) == \E w \in words : Contains(text, w)

AmountSmall == 500
AmountMedium == 5000
AmountLarge == 100000

\* categorize_by_amount, for a float amount (in cents) and a string
amount_rules(abs_amount, desc_lower) ==
    IF abs_amount < AmountSmall THEN
        IF re_search(fee_patterns, desc_lower) THEN "Banking & Fees"
        ELSE IF AnyIn({"coffee", "drink", "snack"}, desc_lower) THEN "Food & Dining"
        ELSE IF Contains(desc_lower, "tip") THEN "Food & Dining"
        ELSE NoCategory
    ELSE IF AmountSmall <= abs_amount /\ abs_amount <= AmountMedium THEN
        IF AnyIn({"gas", "fuel", "station"}, desc_lower) THEN "Transportation"
        ELSE IF AnyIn({"grocery", "food", "market"}, desc_lower) THEN "Groceries"
        ELSE NoCategory
    ELSE IF abs_amount > AmountLarge THEN
        IF AnyIn({"rent", "mortgage", "property"}, desc_lower) THEN "Bills & Utilities"
        ELSE IF AnyIn({"hospital", "medical", "surgery", "emergency"}, desc_lower)
             THEN "Healthcare"
        ELSE IF AnyIn({"tuition", "university", "college"}, desc_lower) THEN "Education"
        ELSE NoCategory
    ELSE NoCategory

categorize_by_amount(amount, description) ==
    amount_rules(IF amount < 0 THEN -amount ELSE amount, lower(description))

WeekendFrom == 4
EarlyHour == 6

timing_rules(desc_lower, date) ==
    IF weekday(date.n) >= WeekendFrom
       /\ AnyIn({"restaurant", "bar", "movie", "entertainment", "game", "theater"},
                desc_lower)
    THEN "Entertainment"
    ELSE IF date.h < EarlyHour
            /\ AnyIn({"autopay", "automatic", "recurring", "bill"}, desc_lower)
    THEN "Bills & Utilities"
    ELSE NoCategory

\* categorize_by_timing, for a string and any value as the date
categorize_by_timing(description, date) ==
    IF date.py # "datetime" THEN NoCategory ELSE timing_rules(lower(description), date)

KeywordWeight == 10

RECURSIVE keyword_score(_, _, _)
\* the score of one category: 10 for every match of every keyword from k on
keyword_score(keywords, desc_lower, k) ==
    IF k > Len(keywords) THEN 0
    ELSE count_matches(<<B, Lit(keywords[k]), B>>, desc_lower) * KeywordWeight
         + keyword_score(keywords, desc_lower, k + 1)

\* the scores of all categories of SPENDING_CATEGORIES
keyword_scores(desc_lower) ==
    Tabulated([c \in 1..Len(SPENDING_CATEGORIES) |->
                   keyword_score(SPENDING_CATEGORIES[c].keywords, desc_lower, 1)])

\* max(scores, key=scores.get) where a score is above zero: the first category
\* with the highest score in the order of SPENDING_CATEGORIES
best_category(scores) ==
    IF \A c \in DOMAIN scores : scores[c] = 0 THEN NoCategory
    ELSE SPENDING_CATEGORIES[
             SetMin({ c \in DOMAIN scores : \A o \in DOMAIN scores : scores[o] <= scores[c] })
         ].category

\* step 9 of multi_pass_categorization; NoCategory where no keyword matches
keyword_category(desc_lower) == best_category(keyword_scores(desc_lower))

\* except_value_or_type as it would be if the clause caught ValueError only
except_value_error(converted) ==
    IF converted.error = "ValueError" THEN [error |-> "", n |-> 0]
    ELSE converted

\* multi_pass_categorization lines 297-301: the amount as a float, 0.0 for None
\* and where float() raises ValueError or TypeError; error names an exception
\* the except clause does not catch
except_value_or_type(converted) ==
    IF converted.error \in {"ValueError", "TypeError"} THEN [error |-> "", n |-> 0]
    ELSE converted

coerce_amount(amount) ==
    IF amount.py = "None" THEN [error |-> "", n |-> 0]
    ELSE except_value_or_type(py_float(amount))

\* multi_pass_categorization lines 303-304: the description as a string
coerce_description(description) ==
    IF description.py = "str" THEN description.s
    ELSE IF description.py = "None" THEN "" ELSE py_str(description)

(***************************************************************************)
(* TLC evaluates a constant once: the results of the string functions for  *)
(* the descriptions of the model are kept in tables, and a function with   *)
(* the suffix _of reads its table.                                         *)
(***************************************************************************)
DescriptionStrings ==
    { r.description : r \in RowUniverse } \cup { coerce_description(d) : d \in CatDescriptions }
    \cup {KeptDescription}

NormalizedMerchant == Tabulated([s \in DescriptionStrings |-> normalize_merchant_name(s)])

normalize_merchant_name_of(description) == NormalizedMerchant[description]

NormalizedStrings == { NormalizedMerchant[s] : s \in DescriptionStrings }

FuzzyMerchant ==
    Tabulated([s \in NormalizedStrings |-> fuzzy_match_merchant(s, DefaultThreshold)])

fuzzy_match_merchant_of(description) == FuzzyMerchant[description]

KeywordCategory == Tabulated([s \in NormalizedStrings |-> keyword_category(lower(s))])

keyword_category_of(normalized_desc) == KeywordCategory[normalized_desc]

\* what stands for an exception that leaves multi_pass_categorization
Raised == "<exception>"

\* `if category: return category`, else what the later steps give
OrElse(category, later) == IF category # NoCategory THEN category ELSE later

\* multi_pass_categorization lines 310-325, steps 2 to 5
priority_category(desc_lower, amount) ==
    IF amount > 0 /\ re_search(income_patterns, desc_lower) THEN "Income"
    ELSE IF amount < 0 /\ re_search(cc_payment_patterns, desc_lower) THEN "Bills & Utilities"
    ELSE IF re_search(transfer_patterns, desc_lower) THEN "Transfer"
    ELSE IF re_search(fee_patterns, desc_lower) THEN "Banking & Fees"
    ELSE NoCategory

\* multi_pass_categorization lines 306-363, for the float amount and the
\* description as a string
categorize_normalized(normalized_desc, amount, date) ==
    OrElse(priority_category(lower(normalized_desc), amount),
    OrElse(fuzzy_match_merchant_of(normalized_desc),
    OrElse(categorize_by_amount(amount, normalized_desc),
    OrElse(IF py_truth(date) THEN categorize_by_timing(normalized_desc, date)
           ELSE NoCategory,
    OrElse(keyword_category_of(normalized_desc),
           "Other")))))

\* multi_pass_categorization
multi_pass_categorization(description, amount, date) ==
    IF coerce_amount(amount).error # "" THEN Raised
    ELSE categorize_normalized(
             normalize_merchant_name_of(coerce_description(description)),
             coerce_amount(amount).n, date)

\* categorize_transaction: the category, 'Other' on any exception
other_if_raised(category) == IF category = Raised THEN "Other" ELSE category

categorize_transaction(description, amount, date) ==
    other_if_raised(multi_pass_categorization(description, amount, date))

(***************************************************************************)
(* core/parser.py: TransactionDeduplicator.  A DataFrame is the sequence   *)
(* of its rows; the index label of a row is its position (from 1, where    *)
(* pandas counts from 0).                                                  *)
(***************************************************************************)
credit_card_patterns ==
    << Words(<<"payment", "thank", "you">>), Words(<<"online", "payment">>),
       Words(<<"autopay">>), Words(<<"credit", "card", "payment">>),
       Words(<<"cc", "payment">>), Words(<<"automatic", "payment">>),
       Words(<<"electronic", "payment">>), Words(<<"chase", "credit", "crd">>),
       Words(<<"discover", "payment">>), Words(<<"capital", "one", "payment">>),
       Words(<<"citi", "payment">>), Words(<<"amex", "payment">>),
       Words(<<"american", "express", "payment">>) >>

dedup_transfer_patterns ==
    << Words(<<"transfer", "to">>), Words(<<"transfer", "from">>),
       Words(<<"internal", "transfer">>), Words(<<"account", "transfer">>),
       Words(<<"online", "transfer">>), Words(<<"zelle">>), Words(<<"venmo">>),
       Words(<<"cash", "app">>), Words(<<"paypal", "transfer">>) >>

\* any(re.search(pattern, text, re.IGNORECASE) for pattern in patterns)
search_any(patterns, text) == \E k \in 1..Len(patterns) : re_search(patterns[k], text)

\* normalize_description: the prefixes, the suffixes, the characters [\d\-\/\*\#]+
\* and the runs of whitespace are substituted in this order
normalize_description(description) ==
    strip(re_sub(<<Ws(1)>>, " ",
          re_sub(<<Cls("0123456789-/*#", 1)>>, "",
          re_sub(<<Ws(1), Phrases(<< <<"payment">>, <<"purchase">>, <<"transaction">>,
                                     <<"charge">> >>), Eol>>, "",
          re_sub(<<Bol, Phrases(<< <<"debit">>, <<"credit">>, <<"online">>, <<"web">>,
                                   <<"pos">>, <<"purchase">>, <<"payment">>,
                                   <<"transaction">> >>), Ws(1)>>, "",
                 strip(lower(description)))))))

\* the tables of the deduplicator's string functions (see DescriptionStrings)
CreditCardMatched ==
    Tabulated([s \in DescriptionStrings |-> search_any(credit_card_patterns, lower(s))])

\* any(re.search(pattern, desc_lower) for pattern in credit_card_patterns)
matches_credit_card(description) == CreditCardMatched[description]

TransferMatched ==
    Tabulated([s \in DescriptionStrings |-> search_any(dedup_transfer_patterns, lower(s))])

\* any(re.search(pattern, desc_lower) for pattern in transfer_patterns)
matches_transfer(description) == TransferMatched[description]

NormalizedDescription ==
    Tabulated([s \in DescriptionStrings |-> normalize_description(s)])

\* desc_similarity of find_similar_transactions for two normalized descriptions
desc_similarity(row_desc, cand_desc) ==
    IF row_desc # "" /\ cand_desc # "" THEN fuzz_ratio(row_desc, cand_desc) ELSE 0

DescriptionSimilarity ==
    Tabulated([pair \in DescriptionStrings \X DescriptionStrings |->
                 desc_similarity(NormalizedDescription[pair[1]],
                                 NormalizedDescription[pair[2]])])

\* desc_similarity for the descriptions of two rows
desc_similarity_of(description, candidate) == DescriptionSimilarity[<<description, candidate>>]

Index(df) == 1..Len(df)

Abs(n) == IF n < 0 THEN -n ELSE n

RECURSIVE SumAmounts(_, _)
\* df['amount'].sum() over the rows of the index set rows
SumAmounts(df, rows) ==
    IF rows = {} THEN 0
    ELSE LET i == CHOOSE r \in rows : TRUE
         IN  df[i].amount + SumAmounts(df, rows \ {i})

\* is_credit_card_payment
is_credit_card_payment(description, amount) ==
    amount < 0 /\ matches_credit_card(description)

\* is_transfer_transaction, and the mask str.contains('|'.join(transfer_patterns))
is_transfer_transaction(description) == matches_transfer(description)

\* the key of find_exact_duplicates: the text f"{date}_{description}_{amount}" is
\* the same for two rows exactly when the three values are
temp_key(row) == <<row.date, row.description, row.amount>>

\* find_exact_duplicates as it would be if duplicated() marked the second row
\* of a key and no further one
find_second_occurrences(df) ==
    { i \in Index(df) :
        Cardinality({ j \in 1..(i - 1) : temp_key(df[j]) = temp_key(df[i]) }) = 1 }

\* find_exact_duplicates as it would be with the normalized description in the key
find_normalized_duplicates(df) ==
    { i \in Index(df) :
        \E j \in 1..(i - 1) :
            /\ df[j].date = df[i].date
            /\ NormalizedDescription[df[j].description]
                  = NormalizedDescription[df[i].description]
            /\ df[j].amount = df[i].amount }

\* find_exact_duplicates: df.duplicated(subset=['_temp_key'], keep='first')
find_exact_duplicates(df) ==
    { i \in Index(df) : \E j \in 1..(i - 1) : temp_key(df[j]) = temp_key(df[i]) }

CcDateWindow == 45
CcDateBuffer == 2
\* tolerance = 0.15, in hundredths
CcTolerancePct == 15

\* potential_charges as it would be without the condition of lines 185-186 that
\* leaves the payments and the transfers out of the charges
charges_and_payments(df, p) ==
    { i \in Index(df) :
        /\ df[i].date >= df[p].date - CcDateWindow
        /\ df[i].date <= df[p].date + CcDateBuffer
        /\ df[i].amount < 0
        /\ i # p }

\* potential_charges as it would be without the condition amount < 0 of line 183
charges_of_either_sign(df, p) ==
    { i \in Index(df) :
        /\ df[i].date >= df[p].date - CcDateWindow
        /\ df[i].date <= df[p].date + CcDateBuffer
        /\ i # p
        /\ ~(matches_credit_card(df[i].description) \/ matches_transfer(df[i].description)) }

\* charge_mask of handle_credit_card_duplicates for the payment at index p
potential_charges(df, p) ==
    { i \in Index(df) :
        /\ df[i].date >= df[p].date - CcDateWindow
        /\ df[i].date <= df[p].date + CcDateBuffer
        /\ df[i].amount < 0
        /\ i # p
        /\ ~(matches_credit_card(df[i].description) \/ matches_transfer(df[i].description)) }

\* abs(total_charges - payment_amount) <= payment_amount * tolerance
charges_match_payment(df, p) ==
    100 * Abs(Abs(SumAmounts(df, potential_charges(df, p))) - Abs(df[p].amount))
        <= Abs(df[p].amount) * CcTolerancePct

RECURSIVE SumCovered(_, _)
\* charges_covered: len(potential_charges) added for every matched payment
SumCovered(df, payments) ==
    IF payments = {} THEN 0
    ELSE Cardinality(potential_charges(df, CHOOSE r \in payments : TRUE))
         + SumCovered(df, payments \ {CHOOSE r \in payments : TRUE})

\* cc_payments of handle_credit_card_duplicates
cc_payments(df) ==
    { i \in Index(df) : is_credit_card_payment(df[i].description, df[i].amount) }

\* the payments whose charges are found and add up to the payment
matched_payments(df, payments) ==
    { p \in payments : potential_charges(df, p) # {} /\ charges_match_payment(df, p) }

\* credit_card_info as it would be if a matched payment were recorded in
\* unmatched_payments as well
every_payment_unmatched(df, payments, matched) ==
    [ duplicates_to_remove |-> matched,
      payments_found |-> Cardinality(payments),
      charges_covered |-> SumCovered(df, matched),
      unmatched_payments |-> payments ]

credit_card_info(df, payments, matched) ==
    [ duplicates_to_remove |-> matched,
      payments_found |-> Cardinality(payments),
      charges_covered |-> SumCovered(df, matched),
      unmatched_payments |-> payments \ matched ]

payments_info(df, payments) == credit_card_info(df, payments, matched_payments(df, payments))

\* handle_credit_card_duplicates: the indices to remove and credit_card_info
handle_credit_card_duplicates(df) == payments_info(df, cc_payments(df))

RECURSIVE transfer_loop(_, _, _, _, _)
\* the loop of handle_transfer_duplicates from index idx on
transfer_loop(df, transfers, idx, processed_transfers, duplicates_to_remove) ==
    IF idx > Len(df) THEN duplicates_to_remove
    ELSE IF idx \notin transfers \/ idx \in processed_transfers
    THEN transfer_loop(df, transfers, idx + 1, processed_transfers, duplicates_to_remove)
    ELSE LET matching_transfers ==
                 { m \in transfers : /\ df[m].date = df[idx].date
                                     /\ Abs(df[m].amount) = Abs(df[idx].amount)
                                     /\ m # idx }
         IN  IF matching_transfers = {}
             THEN transfer_loop(df, transfers, idx + 1, processed_transfers,
                                duplicates_to_remove)
             ELSE transfer_loop(df, transfers, idx + 1,
                                processed_transfers \cup matching_transfers \cup {idx},
                                duplicates_to_remove
                                    \cup (matching_transfers \ processed_transfers))

\* handle_transfer_duplicates
handle_transfer_duplicates(df) ==
    transfer_loop(df, { i \in Index(df) : matches_transfer(df[i].description) }, 1, {}, {})

FuzzyDateWindow == 2
\* amount_tolerance = 0.01, in hundredths
FuzzyAmountTolerancePct == 1
\* the floor 1.0 of the amount tolerance, in cents
FuzzyAmountFloor == 100

\* amount_diff <= max(row_amount * amount_tolerance, 1.0), in ten-thousandths
amount_similar(row_amount, cand_amount, amount_tolerance) ==
    100 * Abs(row_amount - cand_amount)
        <= max(row_amount * amount_tolerance, 100 * FuzzyAmountFloor)

\* the candidates the row at idx marks as its duplicates
similar_candidates(df, date_window, amount_tolerance, description_threshold, idx, processed_indices) ==
    { c \in Index(df) :
        /\ df[c].date >= df[idx].date - date_window
        /\ df[c].date <= df[idx].date + date_window
        /\ c # idx
        /\ c \notin processed_indices
        /\ amount_similar(Abs(df[idx].amount), Abs(df[c].amount), amount_tolerance)
        /\ desc_similarity_of(df[idx].description, df[c].description)
              >= description_threshold
        /\ c > idx }

RECURSIVE similar_loop(_, _, _, _, _, _, _)
similar_marked(df, date_window, amount_tolerance, description_threshold, idx, processed_indices, duplicates_to_remove, hits) ==
    similar_loop(df, date_window, amount_tolerance, description_threshold, idx + 1,
                 processed_indices \cup hits, duplicates_to_remove \cup hits)

\* the loop of find_similar_transactions from index idx on
similar_loop(df, date_window, amount_tolerance, description_threshold, idx, processed_indices, duplicates_to_remove) ==
    IF idx > Len(df) THEN duplicates_to_remove
    ELSE IF idx \in processed_indices
    THEN similar_loop(df, date_window, amount_tolerance, description_threshold, idx + 1,
                      processed_indices, duplicates_to_remove)
    ELSE similar_marked(df, date_window, amount_tolerance, description_threshold, idx,
                        processed_indices, duplicates_to_remove,
                        similar_candidates(df, date_window, amount_tolerance,
                                           description_threshold, idx, processed_indices))

\* find_similar_transactions
find_similar_transactions(df, date_window, amount_tolerance, description_threshold) ==
    similar_loop(df, date_window, amount_tolerance, description_threshold, 1, {}, {})

RECURSIVE drop(_, _, _)
\* df.drop(index=...): the rows from position i on whose index is not dropped
drop(df, indices, i) ==
    IF i > Len(df) THEN <<>>
    ELSE (IF i \in indices THEN <<>> ELSE <<df[i]>>) \o drop(df, indices, i + 1)

\* drop_index as it would be if drop deleted the first of the indices only
drop_first_index(df, indices) ==
    drop(df, IF indices = {} THEN {} ELSE {SetMin(indices)}, 1)

\* remove_duplicates line 329: the table without the rows of all_duplicates
drop_index(df, indices) == drop(df, indices, 1)

\* combined_df.drop_duplicates(subset=['date', 'description', 'amount'], keep='first')
drop_duplicates(df) ==
    drop(df, { i \in Index(df) :
                 \E j \in 1..(i - 1) : /\ df[j].date = df[i].date
                                       /\ df[j].description = df[i].description
                                       /\ df[j].amount = df[i].amount }, 1)

(***************************************************************************)
(* core/parser.py: parse_pdf_statement.  An uploaded file is modelled by   *)
(* what the two extraction libraries obtain from it ("text", "blank" for   *)
(* white space, "" for no text, "error" for an exception) and by the       *)
(* transactions its lines hold, in line order.                             *)
(***************************************************************************)
Pdf(name, pdfplumber, PyPDF2, transactions) ==
    [name |-> name, pdfplumber |-> pdfplumber, PyPDF2 |-> PyPDF2,
     transactions |-> transactions]

\* what page.extract_text() gives for the pages of a file read by one library:
\* a page of text, a page of blanks, no page with text, or an exception before
\* any page is read
page_texts(outcome) ==
    CASE outcome = "text"  -> <<"06/15 COFFEE SHOP 5.10">>
      [] outcome = "blank" -> <<"   ">>
      [] OTHER             -> <<>>

\* the line break after a page, white space to str.strip()
LineBreak == " "

RECURSIVE join_pages(_)
\* full_text += page_text + "\n" for every page with text
join_pages(pages) ==
    IF pages = <<>> THEN "" ELSE Head(pages) \o LineBreak \o join_pages(Tail(pages))

\* extract_text lines 434-443: full_text after pdfplumber; an exception is caught
primary_text(pdf_file) == join_pages(page_texts(pdf_file.pdfplumber))

\* fallback_attempted as it would be if line 446 tested full_text without
\* strip()
primary_text_empty(pdf_file) == primary_text(pdf_file) = ""

\* extract_text line 446: if not full_text.strip()
fallback_attempted(pdf_file) == strip(primary_text(pdf_file)) = ""

\* extract_text: the full_text returned
full_text(pdf_file) ==
    primary_text(pdf_file)
        \o (IF fallback_attempted(pdf_file)
            THEN join_pages(page_texts(pdf_file.PyPDF2)) ELSE "")

\* extract_text: the lines returned, one for every page with text
text_lines(pdf_file) ==
    page_texts(pdf_file.pdfplumber)
        \o (IF fallback_attempted(pdf_file) THEN page_texts(pdf_file.PyPDF2) ELSE <<>>)

\* extract_text as parse_pdf_statement tests it: the library the text comes
\* from, "" where full_text.strip() is empty
extract_text(pdf_file) ==
    IF strip(full_text(pdf_file)) = "" THEN ""
    ELSE IF fallback_attempted(pdf_file) THEN "PyPDF2"
    ELSE "pdfplumber"

RECURSIVE last_transactions(_, _)
\* unique_transactions as it would be if the last of every (date, description,
\* amount) were kept
last_transactions(transactions, i) ==
    IF i > Len(transactions) THEN <<>>
    ELSE (IF \E j \in (i + 1)..Len(transactions) : transactions[j] = transactions[i]
          THEN <<>> ELSE <<transactions[i]>>)
         \o last_transactions(transactions, i + 1)

RECURSIVE unique_transactions(_, _)
\* extract_transactions_from_text lines 559-565: the first of every
\* (date, description, amount) among the transactions from position i on
unique_transactions(transactions, i) ==
    IF i > Len(transactions) THEN <<>>
    ELSE (IF \E j \in 1..(i - 1) : transactions[j] = transactions[i]
          THEN <<>> ELSE <<transactions[i]>>)
         \o unique_transactions(transactions, i + 1)

RECURSIVE sorted_by_date(_)
\* sorted(..., key=lambda x: x['date']): stable, the first of the rows with
\* the least date comes first
sorted_by_date(rows) ==
    IF rows = <<>> THEN <<>>
    ELSE LET least == CHOOSE i \in Index(rows) :
                        /\ \A j \in Index(rows) : rows[i].date <= rows[j].date
                        /\ \A j \in 1..(i - 1) : rows[j].date # rows[i].date
         IN  <<rows[least]>> \o sorted_by_date(drop(rows, {least}, 1))

\* extract_transactions_from_text line 548: description[:100]
limit_length(description) ==
    SubSeq(description, 1, IF Len(description) < MaxDescription
                           THEN Len(description) ELSE MaxDescription)

\* line_transactions as it would be without the tests of lines 527 and 550:
\* every line gives a transaction
every_line_transaction(lines, i) ==
    [k \in 1..(Len(lines) - i + 1) |->
        Txn(lines[k + i - 1].date, limit_length(lines[k + i - 1].description),
            lines[k + i - 1].amount)]

RECURSIVE line_transactions(_, _)
\* extract_transactions_from_text lines 527-556 for the lines from i on: a line
\* whose amount is under one cent or whose description is not longer than two
\* characters gives no transaction
line_transactions(lines, i) ==
    IF i > Len(lines) THEN <<>>
    ELSE (IF Abs(lines[i].amount) < MinAmount \/ Len(limit_length(lines[i].description)) <= MinDescription
          THEN <<>>
          ELSE <<Txn(lines[i].date, limit_length(lines[i].description), lines[i].amount)>>)
         \o line_transactions(lines, i + 1)

\* extract_transactions_from_text on what the patterns find in the lines
extract_transactions_from_text(pdf_file) ==
    sorted_by_date(unique_transactions(line_transactions(pdf_file.transactions, 1), 1))

\* parse_pdf_statement lines 629-630: df[(df['amount'] != 0) & (df['description'].str.len() > 2)]
nonzero_and_described(row) == row.amount # 0 /\ Len(row.description) > 2

RECURSIVE select(_, _)
\* the rows of the mask of lines 629-630 from position i on
select(rows, i) ==
    IF i > Len(rows) THEN <<>>
    ELSE (IF nonzero_and_described(rows[i]) THEN <<rows[i]>> ELSE <<>>) \o select(rows, i + 1)

\* parse_pdf_statement lines 622-627: the rows of one file with their source and
\* their category
tagged(pdf_file, raw_transactions) ==
    [i \in Index(raw_transactions) |->
        [date |-> raw_transactions[i].date,
         description |-> raw_transactions[i].description,
         amount |-> raw_transactions[i].amount,
         source_file |-> pdf_file.name,
         category |-> categorize_transaction(PyStr(raw_transactions[i].description),
                                             PyFloat(raw_transactions[i].amount),
                                             PyDatetime(raw_transactions[i].date, 0))]]

\* parse_pdf_statement lines 622-630: the DataFrame of one file
file_frame(pdf_file, raw_transactions) ==
    select(tagged(pdf_file, raw_transactions), 1)

RECURSIVE concat(_)
\* pd.concat(all_transactions, ignore_index=True)
concat(frames) ==
    IF frames = <<>> THEN <<>> ELSE Head(frames) \o concat(Tail(frames))

\* use_deduplicator as it would be if only the number of files counted
more_than_one_file(files, config) ==
    Len(files) > 1

\* parse_pdf_statement line 654
use_deduplicator(files, config) ==
    Len(files) > 1 \/ config.aggressive_deduplication

RECURSIVE sort_values(_)
\* sort_values('date'): the default kind, quicksort, is not stable, and rows
\* with equal dates come out in an order the call does not fix
sort_values(df) ==
    IF df = <<>> THEN {<<>>}
    ELSE UNION { { <<df[i]>> \o rest : rest \in sort_values(drop(df, {i}, 1)) } :
                 i \in { k \in Index(df) : \A j \in Index(df) : df[k].date <= df[j].date } }

\* the statements uploaded: the lines of ab.pdf are out of date order and one
\* is repeated; k.pdf repeats a line after another line of the same date;
\* b.pdf, ca.pdf and w.pdf are read by the fallback only; scan.pdf and
\* blank.pdf give no text and cover.pdf no transaction
StatementA  == Pdf("a.pdf", "text", "", <<PaymentA>>)
StatementAB == Pdf("ab.pdf", "text", "", <<ChargeB, PaymentA, ChargeB>>)
StatementB  == Pdf("b.pdf", "error", "text", <<ChargeB>>)
StatementB2 == Pdf("b2.pdf", "text", "", <<ChargeB2>>)
StatementCA == Pdf("ca.pdf", "", "text", <<ChargeC, PaymentA>>)
StatementD  == Pdf("d.pdf", "text", "", <<TransferD>>)
StatementE  == Pdf("e.pdf", "text", "", <<TransferE>>)
StatementDB == Pdf("db.pdf", "text", "", <<TransferD, ChargeB>>)
StatementG  == Pdf("g.pdf", "text", "", <<PaymentG>>)
StatementI  == Pdf("i.pdf", "text", "", <<IncomeI>>)
StatementJ  == Pdf("j.pdf", "text", "", <<ShortLine, LongLine, ZeroLine, CentLine, ChargeB>>)
StatementK  == Pdf("k.pdf", "text", "", <<ChargeB, ChargeB3, ChargeB>>)
StatementW  == Pdf("w.pdf", "blank", "text", <<IncomeI>>)
BlankScan   == Pdf("blank.pdf", "blank", "", <<>>)
Unreadable  == Pdf("scan.pdf", "", "error", <<>>)
CoverSheet  == Pdf("cover.pdf", "text", "", <<>>)

Statements ==
    { StatementA, StatementAB, StatementB, StatementB2, StatementCA, StatementD,
      StatementE, StatementDB, StatementG, StatementI, StatementJ, StatementK,
      StatementW, BlankScan, Unreadable,
      CoverSheet }

\* the most files uploaded at once
MaxFiles == 2
\* the most rows of a table remove_duplicates is called with directly
MaxRows == 3

SeqsUpTo(S, n) == UNION { [1..k -> S] : k \in 0..n }

\* interfaces/main_ui.py create_enhanced_deduplication_config: the dictionary
\* the sidebar builds, with the sliders at their defaults (the tolerance in
\* hundredths) ...
DefaultConfigs ==
    [remove_credit_card_duplicates : BOOLEAN,
     remove_transfer_duplicates : BOOLEAN,
     aggressive_deduplication : BOOLEAN,
     cc_date_window : {45},
     cc_amount_tolerance : {15},
     fuzzy_date_window : {2},
     description_threshold : {85}]

\* ... and with the sliders moved
TunedConfig ==
    [remove_credit_card_duplicates |-> TRUE,
     remove_transfer_duplicates |-> TRUE,
     aggressive_deduplication |-> TRUE,
     cc_date_window |-> 30,
     cc_amount_tolerance |-> 5,
     fuzzy_date_window |-> 1,
     description_threshold |-> 95]

Configs == DefaultConfigs \cup {TunedConfig}

NoInfo == [duplicates_to_remove |-> {}, payments_found |-> 0,
           charges_covered |-> 0, unmatched_payments |-> {}]

VARIABLES
    transaction,                \* the arguments of categorize_transaction
    returned_category,          \* what it returned, NoCategory before the call
    history,                    \* the calls of categorize_transaction that returned
    clean_argument,             \* the argument of clean_amount
    clean_result,               \* what it returned, in cents
    given_threshold,            \* the threshold a fuzzy lookup is called with
    statement_text,             \* the text find_statement_period is called with
    current_date,               \* datetime.now(), as a date
    statement_year,             \* the year find_statement_period returned, 0 before
    line,                       \* a line of the statement, or a date as text
    date_found,                 \* the date found in it, NoDate for None
    uploaded_files,             \* the argument of parse_pdf_statement
    dedup_config,               \* the switches of the deduplication
    pc,                         \* where the call stands
    file_index,                 \* the file the loop of lines 593-635 is at
    all_transactions,           \* the frames of the files processed so far
    combined_df,                \* the combined table of parse_pdf_statement
    df_clean,                   \* the table remove_duplicates works on
    exact_duplicates, cc_duplicates, cc_info, transfer_duplicates,
    similar_duplicates,         \* what each pass of remove_duplicates found
    all_duplicates,             \* the index labels marked for removal
    df_final,                   \* what remove_duplicates returns
    result                      \* what parse_pdf_statement returns

catvars == <<transaction, returned_category, history>>
datevars == <<statement_text, current_date, statement_year, line, date_found>>
callvars == <<clean_argument, clean_result, given_threshold, datevars>>
filevars == <<uploaded_files, file_index, all_transactions, combined_df, result>>
dedupvars == <<df_clean, exact_duplicates, cc_duplicates, cc_info, transfer_duplicates,
               similar_duplicates, all_duplicates, df_final>>
vars == <<catvars, callvars, filevars, dedupvars, dedup_config, pc>>

NoCall ==
    /\ transaction = [description |-> PyNone, amount |-> PyNone, date |-> PyNone]
    /\ returned_category = NoCategory
    /\ history = <<>>

\* the day the other specifications run on, Day(0)
Today == Date(2024, 6, 15)

\* the days parse_date is called on
CurrentDates == {Today, Date(2024, 1, 10), Date(2025, 1, 5)}

\* the texts of statements: with a year of this century as a word, and without
StatementTexts == {"Statement Period 05/01/2024 through 05/31/2024",
                   "CHASE FREEDOM 2023 ACTIVITY",
                   "ACCOUNT ACTIVITY"}

\* the texts parse_date is called with
DateTexts == {"05/10", "12/28", "02/29", "7/4", "05-10", "Jun 15", "13/45",
              "Date: 05/10", "transaction: 05/10", "(05/10),",
              "05/10/2023", "12/28/23", "02/29/2024", "2023-05-10", "Jan 15, 2024"}

\* the line of a purchase that begins with a date
PurchaseLine(date_text) == date_text \o " COFFEE SHOP 5.10"

\* the lines of a statement a date is looked for in
StatementLines ==
    { PurchaseLine(d) : d \in {"05/10", "12/28", "02/29", "Jun 15", "05/10/2023",
                                "12/28/23", "02/29/2024", "January 15, 2024"} }

NoDates ==
    /\ statement_text = "" /\ current_date = Today /\ statement_year = 0
    /\ line = "" /\ date_found = NoDate

NoAmount ==
    /\ clean_argument = PyNone /\ clean_result = 0 /\ given_threshold = DefaultThreshold
    /\ NoDates

NoMarks ==
    /\ exact_duplicates = {} /\ cc_duplicates = {} /\ cc_info = NoInfo
    /\ transfer_duplicates = {} /\ similar_duplicates = {}
    /\ all_duplicates = {} /\ df_final = <<>>

NoFiles ==
    /\ uploaded_files = <<>> /\ file_index = 1 /\ all_transactions = <<>>
    /\ combined_df = <<>> /\ result = <<>>

\* parse_pdf_statement(uploaded_files, dedup_config) has been called
Init ==
    /\ uploaded_files \in SeqsUpTo(Statements, MaxFiles)
    /\ dedup_config \in Configs
    /\ pc = "process_file"
    /\ file_index = 1 /\ all_transactions = <<>> /\ combined_df = <<>> /\ result = <<>>
    /\ df_clean = <<>> /\ NoMarks
    /\ NoCall /\ NoAmount

\* remove_duplicates(df_clean, ...) has been called
InitDedup ==
    /\ df_clean \in SeqsUpTo(RowUniverse, MaxRows)
    /\ dedup_config \in Configs
    /\ pc = "remove_duplicates"
    /\ NoMarks /\ NoFiles /\ NoCall /\ NoAmount

\* categorize_transaction(description, amount, date) has been called
InitCat ==
    /\ transaction \in [description : CatDescriptions
                                        \cup { PyStr(r.description) : r \in RowUniverse },
                         amount : CatAmounts,
                         date : CatDates]
    /\ returned_category = NoCategory
    /\ history = <<>>
    /\ pc = "categorize_transaction"
    /\ dedup_config \in { c \in DefaultConfigs : /\ c.remove_credit_card_duplicates
                                                   /\ c.remove_transfer_duplicates
                                                   /\ ~c.aggressive_deduplication }
    /\ df_clean = <<>> /\ NoMarks /\ NoFiles /\ NoAmount

\* clean_amount(amount_str) has been called
InitAmount ==
    /\ clean_argument \in AmountArguments
    /\ clean_result = 0
    /\ given_threshold = DefaultThreshold
    /\ NoDates
    /\ pc = "clean_amount"
    /\ dedup_config \in { c \in DefaultConfigs : /\ c.remove_credit_card_duplicates
                                                   /\ c.remove_transfer_duplicates
                                                   /\ ~c.aggressive_deduplication }
    /\ df_clean = <<>> /\ NoMarks /\ NoFiles /\ NoCall

\* the thresholds a fuzzy lookup is called with, inside and outside 0..100
Thresholds == {-5, 0, 85, 100, 101, 150}

\* the descriptions fuzzy_match_merchant is called with
MerchantTexts == {"WALMART", "Apple Store", "xyz corp"}

\* find_similar_transactions(df, description_threshold=...) or
\* fuzzy_match_merchant(description, threshold) has been called
InitThreshold ==
    /\ given_threshold \in Thresholds
    /\ pc \in {"find_similar_transactions", "fuzzy_match_merchant"}
    /\ IF pc = "find_similar_transactions"
       THEN /\ df_clean \in SeqsUpTo(RowUniverse, MaxRows)
            /\ NoCall
       ELSE /\ df_clean = <<>>
            /\ transaction \in [description : { PyStr(s) : s \in MerchantTexts },
                                 amount : {PyNone}, date : {PyNone}]
            /\ returned_category = NoCategory
            /\ history = <<>>
    /\ dedup_config \in { c \in DefaultConfigs : /\ c.remove_credit_card_duplicates
                                                   /\ c.remove_transfer_duplicates
                                                   /\ c.aggressive_deduplication }
    /\ clean_argument = PyNone /\ clean_result = 0
    /\ NoDates /\ NoMarks /\ NoFiles

\* find_statement_period(text) has been called on the text of a statement, and
\* then parse_date or the search for a date on a line of it
InitDate ==
    /\ statement_text \in StatementTexts
    /\ current_date \in CurrentDates
    /\ statement_year = 0
    /\ line \in DateTexts \cup StatementLines
    /\ date_found = NoDate
    /\ pc = "find_statement_period"
    /\ clean_argument = PyNone /\ clean_result = 0 /\ given_threshold = DefaultThreshold
    /\ dedup_config \in { c \in DefaultConfigs : /\ c.remove_credit_card_duplicates
                                                   /\ c.remove_transfer_duplicates
                                                   /\ ~c.aggressive_deduplication }
    /\ df_clean = <<>> /\ NoMarks /\ NoFiles /\ NoCall

(***************************************************************************)
(* The dates of a statement                                                *)
(***************************************************************************)
\* start_date, end_date, statement_year = find_statement_period(text)
FindStatementPeriod ==
    /\ pc = "find_statement_period"
    /\ statement_year' = find_statement_period(statement_text, current_date)
    /\ pc' = "extract_transactions_from_text"
    /\ UNCHANGED <<statement_text, current_date, line, date_found>>
    /\ UNCHANGED <<catvars, clean_argument, clean_result, given_threshold, filevars,
                   dedupvars, dedup_config>>

\* parse_date(date_str, statement_year)
ParseDate ==
    /\ pc = "extract_transactions_from_text"
    /\ line \in DateTexts
    /\ date_found' = parse_date(line, statement_year, current_date)
    /\ pc' = "parsed"
    /\ UNCHANGED <<statement_text, current_date, statement_year, line>>
    /\ UNCHANGED <<catvars, clean_argument, clean_result, given_threshold, filevars,
                   dedupvars, dedup_config>>

\* extract_transactions_from_text: the date patterns tried on a line
SearchDate ==
    /\ pc = "extract_transactions_from_text"
    /\ line \in StatementLines
    /\ date_found' = date_search(line, 1, statement_year, current_date)
    /\ pc' = "date_found"
    /\ UNCHANGED <<statement_text, current_date, statement_year, line>>
    /\ UNCHANGED <<catvars, clean_argument, clean_result, given_threshold, filevars,
                   dedupvars, dedup_config>>

(***************************************************************************)
(* The fuzzy lookups called with a threshold                               *)
(***************************************************************************)
\* find_similar_transactions(df, description_threshold=given_threshold)
FindSimilar ==
    /\ pc = "find_similar_transactions"
    /\ similar_duplicates' =
           find_similar_transactions(df_clean, FuzzyDateWindow, FuzzyAmountTolerancePct,
                                     given_threshold)
    /\ pc' = "found"
    /\ UNCHANGED <<catvars, callvars, filevars, df_clean, exact_duplicates, cc_duplicates,
                   cc_info, transfer_duplicates, all_duplicates, df_final, dedup_config>>

\* fuzzy_match_merchant(description, threshold=given_threshold)
MatchMerchant ==
    /\ pc = "fuzzy_match_merchant"
    /\ returned_category' = fuzzy_match_merchant(transaction.description.s, given_threshold)
    /\ pc' = "matched"
    /\ UNCHANGED <<transaction, history, callvars, filevars, dedupvars, dedup_config>>

(***************************************************************************)
(* categorize_transaction                                                  *)
(***************************************************************************)
\* the category a categorizer kept between the calls would return if it fell
\* back on the category it gave last where the rules give 'Other'
remembered(category, calls) ==
    IF calls # <<>> /\ category = "Other" THEN calls[Len(calls)].category ELSE category

\* Categorize with one TransactionCategorizer shared by the calls
CategorizeShared ==
    /\ pc = "categorize_transaction"
    /\ returned_category' =
           remembered(categorize_transaction(transaction.description, transaction.amount,
                                             transaction.date), history)
    /\ history' = Append(history, [transaction |-> transaction,
                                   category |-> returned_category'])
    /\ pc' = "categorized"
    /\ UNCHANGED <<transaction, callvars, filevars, dedupvars, dedup_config>>

Categorize ==
    /\ pc = "categorize_transaction"
    /\ returned_category' = categorize_transaction(transaction.description,
                                                    transaction.amount, transaction.date)
    /\ history' = Append(history, [transaction |-> transaction,
                                   category |-> returned_category'])
    /\ pc' = "categorized"
    /\ UNCHANGED <<transaction, callvars, filevars, dedupvars, dedup_config>>

\* the caller (df.apply, parse_pdf_statement line 626) goes on to its next row:
\* the row categorized first once more, or one of NextCalls
CallAgain ==
    /\ pc = "categorized"
    /\ Len(history) < MaxCalls
    /\ transaction' \in {history[1].transaction} \cup NextCalls
    /\ returned_category' = NoCategory
    /\ pc' = "categorize_transaction"
    /\ UNCHANGED <<history, callvars, filevars, dedupvars, dedup_config>>

(***************************************************************************)
(* clean_amount                                                            *)
(***************************************************************************)
CleanAmount ==
    /\ pc = "clean_amount"
    /\ clean_result' = clean_amount(clean_argument)
    /\ pc' = "cleaned"
    /\ UNCHANGED <<catvars, clean_argument, given_threshold, datevars, filevars,
                   dedupvars, dedup_config>>

(***************************************************************************)
(* parse_pdf_statement: the loop over the files, lines 593-635             *)
(***************************************************************************)
\* lines 597-601: no text could be extracted, the file is passed over
SkipUnreadable ==
    /\ pc = "process_file" /\ file_index <= Len(uploaded_files)
    /\ extract_text(uploaded_files[file_index]) = ""
    /\ file_index' = file_index + 1
    /\ UNCHANGED <<catvars, callvars, uploaded_files, all_transactions, combined_df, result,
                   dedupvars, dedup_config, pc>>

\* lines 612-619: the text holds no transaction, the file is passed over
SkipNoTransactions ==
    /\ pc = "process_file" /\ file_index <= Len(uploaded_files)
    /\ extract_text(uploaded_files[file_index]) # ""
    /\ extract_transactions_from_text(uploaded_files[file_index]) = <<>>
    /\ file_index' = file_index + 1
    /\ UNCHANGED <<catvars, callvars, uploaded_files, all_transactions, combined_df, result,
                   dedupvars, dedup_config, pc>>

\* lines 621-635: the frame of the file joins all_transactions
AppendTransactions ==
    /\ pc = "process_file" /\ file_index <= Len(uploaded_files)
    /\ extract_text(uploaded_files[file_index]) # ""
    /\ LET raw_transactions == extract_transactions_from_text(uploaded_files[file_index])
       IN  /\ raw_transactions # <<>>
           /\ all_transactions' =
                  Append(all_transactions,
                         file_frame(uploaded_files[file_index], raw_transactions))
    /\ file_index' = file_index + 1
    /\ UNCHANGED <<catvars, callvars, uploaded_files, combined_df, result,
                   dedupvars, dedup_config, pc>>

\* lines 637-638: no file gave a transaction
ReturnEmpty ==
    /\ pc = "process_file" /\ file_index > Len(uploaded_files)
    /\ all_transactions = <<>>
    /\ result' = <<>>
    /\ pc' = "done"
    /\ UNCHANGED <<catvars, callvars, uploaded_files, file_index, all_transactions, combined_df,
                   dedupvars, dedup_config>>

\* line 641
Combine ==
    /\ pc = "process_file" /\ file_index > Len(uploaded_files)
    /\ all_transactions # <<>>
    /\ combined_df' = concat(all_transactions)
    /\ pc' = "deduplicate"
    /\ UNCHANGED <<catvars, callvars, uploaded_files, file_index, all_transactions, result,
                   dedupvars, dedup_config>>

\* lines 654-664: the deduplicator is called with the combined table
CallDeduplicator ==
    /\ pc = "deduplicate"
    /\ use_deduplicator(uploaded_files, dedup_config)
    /\ df_clean' = combined_df
    /\ pc' = "remove_duplicates"
    /\ UNCHANGED <<catvars, callvars, filevars, exact_duplicates, cc_duplicates, cc_info,
                   transfer_duplicates, similar_duplicates, all_duplicates, df_final,
                   dedup_config>>

\* lines 676-679: a single file, the exact duplicates only
SingleFile ==
    /\ pc = "deduplicate"
    /\ ~use_deduplicator(uploaded_files, dedup_config)
    /\ combined_df' = drop_duplicates(combined_df)
    /\ pc' = "sort_values"
    /\ UNCHANGED <<catvars, callvars, uploaded_files, file_index, all_transactions, result,
                   dedupvars, dedup_config>>

\* line 659: the table remove_duplicates returned becomes the combined table
AssignDeduplicated ==
    /\ pc = "returned"
    /\ combined_df' = df_final
    /\ pc' = "sort_values"
    /\ UNCHANGED <<catvars, callvars, uploaded_files, file_index, all_transactions, result,
                   dedupvars, dedup_config>>

\* lines 686-691
SortValues ==
    /\ pc = "sort_values"
    /\ result' \in sort_values(combined_df)
    /\ pc' = "done"
    /\ UNCHANGED <<catvars, callvars, uploaded_files, file_index, all_transactions, combined_df,
                   dedupvars, dedup_config>>

(***************************************************************************)
(* TransactionDeduplicator.remove_duplicates, pass by pass                 *)
(***************************************************************************)
\* description_threshold of find_similar_transactions
FuzzyDescriptionThreshold == 85

\* lines 273-274
EmptyTable ==
    /\ pc = "remove_duplicates"
    /\ df_clean = <<>>
    /\ df_final' = df_clean
    /\ pc' = "returned"
    /\ UNCHANGED <<catvars, callvars, filevars, df_clean, exact_duplicates, cc_duplicates, cc_info,
                   transfer_duplicates, similar_duplicates, all_duplicates, dedup_config>>

\* lines 278-289
ExactPass ==
    /\ pc = "remove_duplicates"
    /\ df_clean # <<>>
    /\ exact_duplicates' = find_exact_duplicates(df_clean)
    /\ all_duplicates' = exact_duplicates'
    /\ pc' = "credit_card"
    /\ UNCHANGED <<catvars, callvars, filevars, df_clean, cc_duplicates, cc_info, transfer_duplicates,
                   similar_duplicates, df_final, dedup_config>>

\* CreditCardPass as it would be if the pass ran whatever the switch says
CreditCardPassUnswitched ==
    /\ pc = "credit_card"
    /\ cc_info' = handle_credit_card_duplicates(df_clean)
    /\ cc_duplicates' = cc_info'.duplicates_to_remove
    /\ all_duplicates' = all_duplicates \cup cc_duplicates'
    /\ pc' = "transfer"
    /\ UNCHANGED <<catvars, callvars, filevars, df_clean, exact_duplicates,
                   transfer_duplicates, similar_duplicates, df_final, dedup_config>>

\* lines 291-304
CreditCardPass ==
    /\ pc = "credit_card"
    /\ IF dedup_config.remove_credit_card_duplicates
       THEN /\ cc_info' = handle_credit_card_duplicates(df_clean)
            /\ cc_duplicates' = cc_info'.duplicates_to_remove
            /\ all_duplicates' = all_duplicates \cup cc_duplicates'
       ELSE UNCHANGED <<cc_info, cc_duplicates, all_duplicates>>
    /\ pc' = "transfer"
    /\ UNCHANGED <<catvars, callvars, filevars, df_clean, exact_duplicates, transfer_duplicates,
                   similar_duplicates, df_final, dedup_config>>

\* lines 306-315
TransferPass ==
    /\ pc = "transfer"
    /\ IF dedup_config.remove_transfer_duplicates
       THEN /\ transfer_duplicates' = handle_transfer_duplicates(df_clean)
            /\ all_duplicates' = all_duplicates \cup transfer_duplicates'
       ELSE UNCHANGED <<transfer_duplicates, all_duplicates>>
    /\ pc' = "similar"
    /\ UNCHANGED <<catvars, callvars, filevars, df_clean, exact_duplicates, cc_duplicates, cc_info,
                   similar_duplicates, df_final, dedup_config>>

\* lines 317-326
FuzzyPass ==
    /\ pc = "similar"
    /\ IF dedup_config.aggressive_deduplication
       THEN /\ similar_duplicates' =
                  find_similar_transactions(df_clean, FuzzyDateWindow, FuzzyAmountTolerancePct,
                                            FuzzyDescriptionThreshold)
            /\ all_duplicates' = all_duplicates \cup similar_duplicates'
       ELSE UNCHANGED <<similar_duplicates, all_duplicates>>
    /\ pc' = "drop"
    /\ UNCHANGED <<catvars, callvars, filevars, df_clean, exact_duplicates, cc_duplicates, cc_info,
                   transfer_duplicates, df_final, dedup_config>>

\* lines 328-347
DropDuplicates ==
    /\ pc = "drop"
    /\ df_final' = drop_index(df_clean, all_duplicates)
    /\ pc' = "returned"
    /\ UNCHANGED <<catvars, callvars, filevars, df_clean, exact_duplicates, cc_duplicates, cc_info,
                   transfer_duplicates, similar_duplicates, all_duplicates, dedup_config>>

(***************************************************************************)
(* remove_duplicates and parse_pdf_statement as functions of their         *)
(* arguments                                                               *)
(***************************************************************************)
\* remove_duplicates: the table without the rows the exact pass and the
\* passes switched on mark, all of them run on the table as it came in
remove_duplicates(df, config) ==
    IF df = <<>> THEN df
    ELSE drop_index(df,
             find_exact_duplicates(df)
             \cup (IF config.remove_credit_card_duplicates
                   THEN handle_credit_card_duplicates(df).duplicates_to_remove ELSE {})
             \cup (IF config.remove_transfer_duplicates
                   THEN handle_transfer_duplicates(df) ELSE {})
             \cup (IF config.aggressive_deduplication
                   THEN find_similar_transactions(df, FuzzyDateWindow,
                                                  FuzzyAmountTolerancePct,
                                                  FuzzyDescriptionThreshold)
                   ELSE {}))

RECURSIVE file_frames(_, _)
\* parse_pdf_statement lines 593-635: all_transactions after the files from i on
file_frames(files, i) ==
    IF i > Len(files) THEN <<>>
    ELSE (IF extract_text(files[i]) = "" \/ extract_transactions_from_text(files[i]) = <<>>
          THEN <<>>
          ELSE <<file_frame(files[i], extract_transactions_from_text(files[i]))>>)
         \o file_frames(files, i + 1)

\* parse_pdf_statement lines 653-679: the combined table deduplicated
deduplicated(files, config, combined) ==
    IF combined = <<>> THEN <<>>
    ELSE IF use_deduplicator(files, config) THEN remove_duplicates(combined, config)
    ELSE drop_duplicates(combined)

\* parse_pdf_statement lines 593-679: combined_df before it is sorted
parsed_table(files, config) == deduplicated(files, config, concat(file_frames(files, 1)))

Next ==
    \/ SkipUnreadable \/ SkipNoTransactions \/ AppendTransactions
    \/ ReturnEmpty \/ Combine \/ CallDeduplicator \/ SingleFile
    \/ ExactPass \/ CreditCardPass \/ TransferPass \/ FuzzyPass \/ DropDuplicates
    \/ AssignDeduplicated \/ SortValues

NextDedup ==
    \/ EmptyTable
    \/ ExactPass \/ CreditCardPass \/ TransferPass \/ FuzzyPass \/ DropDuplicates

NextCat == Categorize \/ CallAgain

NextAmount == CleanAmount

NextThreshold == FindSimilar \/ MatchMerchant

NextDate == FindStatementPeriod \/ ParseDate \/ SearchDate

\* parse_pdf_statement on uploaded statements
Spec == Init /\ [][Next]_vars

\* remove_duplicates on a table
SpecDedup == InitDedup /\ [][NextDedup]_vars

\* categorize_transaction on one transaction after another
SpecCat == InitCat /\ [][NextCat]_vars

\* clean_amount on one argument
SpecAmount == InitAmount /\ [][NextAmount]_vars

\* find_statement_period, parse_date and the search for a date on a line
SpecDate == InitDate /\ [][NextDate]_vars

\* find_similar_transactions and fuzzy_match_merchant on a threshold
SpecThreshold == InitThreshold /\ [][NextThreshold]_vars

(***************************************************************************)
(* The claims of the specification, each stated over the variables of the  *)
(* model                                                                   *)
(***************************************************************************)
\* the candidate charges of the payment at index p for a window of date_window
\* days before the payment
ConfiguredCharges(df, p, date_window) ==
    { i \in Index(df) :
        /\ df[i].date >= df[p].date - date_window
        /\ df[i].date <= df[p].date + CcDateBuffer
        /\ df[i].amount < 0
        /\ i # p
        /\ ~(matches_credit_card(df[i].description) \/ matches_transfer(df[i].description)) }

\* the payments a payment-cycle pass with the window date_window and the
\* tolerance (in hundredths) removes
ConfiguredPayments(df, date_window, tolerance) ==
    { p \in cc_payments(df) :
        /\ ConfiguredCharges(df, p, date_window) # {}
        /\ 100 * Abs(Abs(SumAmounts(df, ConfiguredCharges(df, p, date_window)))
                     - Abs(df[p].amount))
              <= Abs(df[p].amount) * tolerance }

AfterCreditCardPass == pc \in {"transfer", "similar", "drop", "returned"}
AfterFuzzyPass == pc \in {"drop", "returned"}

\* C11: the payment-cycle pass applies the cc_date_window and the
\* cc_amount_tolerance of the configuration, and the fuzzy pass its
\* fuzzy_date_window and its description_threshold
C11_ConfiguredThresholds ==
    /\ (AfterCreditCardPass /\ df_clean # <<>> /\ dedup_config.remove_credit_card_duplicates)
          => cc_duplicates = ConfiguredPayments(df_clean, dedup_config.cc_date_window,
                                                dedup_config.cc_amount_tolerance)
    /\ (AfterFuzzyPass /\ df_clean # <<>> /\ dedup_config.aggressive_deduplication)
          => similar_duplicates =
                 find_similar_transactions(df_clean, dedup_config.fuzzy_date_window,
                                           FuzzyAmountTolerancePct,
                                           dedup_config.description_threshold)

\* C11: a table and a configuration for which the configured tolerance and
\* the tolerance of the source decide differently have been through the pass
C11_TunedPassRan ==
    /\ AfterCreditCardPass
    /\ dedup_config = TunedConfig
    /\ df_clean = <<PaymentG, ChargeB>>
    /\ cc_duplicates = {1}

\* C12: the removal counts of the four passes add up to the number of rows
\* remove_duplicates removed, the rows in minus the rows out
C12_CountsSumToRemoved ==
    pc = "returned"
        => Cardinality(exact_duplicates) + Cardinality(cc_duplicates)
           + Cardinality(transfer_duplicates) + Cardinality(similar_duplicates)
              = Len(df_clean) - Len(df_final)

\* C12: a table with a repeated payment has been deduplicated, the repeated
\* row found by two passes
C12_RowCountedTwice ==
    /\ pc = "returned"
    /\ df_clean = <<PaymentA, PaymentA, ChargeB>>
    /\ 2 \in exact_duplicates \cap cc_duplicates
    /\ Len(df_final) = 1

AfterExactPass == pc \in {"credit_card", "transfer", "similar", "drop", "returned"}

\* C13: the exact-duplicate pass converges in one application: on the table
\* without the rows find_exact_duplicates returned, find_exact_duplicates
\* returns no row
C13_ExactPassConverges ==
    (AfterExactPass /\ df_clean # <<>>)
        => find_exact_duplicates(drop_index(df_clean, exact_duplicates)) = {}

\* C13: the pass has marked two further copies of one row
C13_TwoCopiesMarked ==
    /\ AfterExactPass
    /\ Cardinality(exact_duplicates) = 2
    /\ \A i \in exact_duplicates : temp_key(df_clean[i]) = temp_key(df_clean[1])

WellFormed(row) ==
    /\ Abs(row.amount) >= MinAmount
    /\ Len(row.description) > MinDescription
    /\ Len(row.description) <= MaxDescription

\* C15: every transaction extract_transactions_from_text produces for an
\* uploaded file and every row of the table parse_pdf_statement returns has
\* |amount| >= 0.01 and a description of more than 2 and at most 100 characters
C15_RowsWellFormed ==
    /\ \A f \in 1..Len(uploaded_files) :
          \A k \in Index(extract_transactions_from_text(uploaded_files[f])) :
              WellFormed(extract_transactions_from_text(uploaded_files[f])[k])
    /\ \A k \in Index(result) : WellFormed(result[k])

\* C15: the statement with a line too short, a line too long, a zero amount
\* and an amount of one cent has been parsed, the long line and the cent kept
C15_LongLineReturned ==
    /\ pc = "done"
    /\ uploaded_files = <<StatementJ>>
    /\ \E k \in Index(result) : result[k].description = KeptDescription
    /\ \E k \in Index(result) : result[k].amount = MinAmount
    /\ Len(result) = 3

\* the numbers among AmountTexts with their values in cents, and the texts
\* that are no number
AmountValues ==
    { <<"123.45", 12345>>, <<"1,234.56", 123456>>, <<"0.01", 1>>, <<"5", 500>>,
      <<".5", 50>>, <<"5.", 500>>, <<"-7.25", -725>>, <<"0.00", 0>> }

Unparseable == { "1.2.3", "12-34", "-", "", "abc", "--5", "N/A" }

\* C16: clean_amount returns the value of the number with the currency symbol,
\* the thousands separators and the blanks around it removed, minus its
\* magnitude where it stands in parentheses, whatever sign is inside, and 0.0
\* for an empty, a missing and an unparseable argument
C16_CleanAmount ==
    pc = "cleaned" =>
        /\ \A nv \in AmountValues :
              /\ clean_argument \in { PyStr(nv[1]), PyStr("$" \o nv[1]),
                                      PyStr("  " \o nv[1] \o " ") }
                    => clean_result = nv[2]
              /\ clean_argument \in { PyStr("(" \o nv[1] \o ")"),
                                      PyStr("($" \o nv[1] \o ")") }
                    => clean_result = -Abs(nv[2])
              /\ (nv[2] >= 0 /\ clean_argument = PyStr("-$" \o nv[1]))
                    => clean_result = -nv[2]
        /\ \A u \in Unparseable :
              clean_argument \in { PyStr(u), PyStr("$" \o u), PyStr("-$" \o u),
                                   PyStr("(" \o u \o ")"), PyStr("($" \o u \o ")"),
                                   PyStr("  " \o u \o " ") }
                  => clean_result = 0
        /\ clean_argument = PyNone => clean_result = 0

\* C16: clean_amount has returned for a negative number in parentheses
C16_SignInParentheses ==
    /\ pc = "cleaned"
    /\ clean_argument = PyStr("(-7.25)")
    /\ clean_result = -725

\* C17, as the specification states it: the exact-duplicate pass marks the
\* rows that have an earlier row of the same date, the same normalized
\* description and the same amount
C17_NormalizedKey ==
    (AfterExactPass /\ df_clean # <<>>)
        => exact_duplicates =
               { i \in Index(df_clean) :
                   \E j \in 1..(i - 1) :
                       /\ df_clean[j].date = df_clean[i].date
                       /\ NormalizedDescription[df_clean[j].description]
                             = NormalizedDescription[df_clean[i].description]
                       /\ df_clean[j].amount = df_clean[i].amount }

\* C17, as the source has it: the exact-duplicate pass marks the rows that
\* have an earlier row of the same date, the same description, character by
\* character, and the same amount, and no other row
C17_ExactKey ==
    (AfterExactPass /\ df_clean # <<>>)
        => exact_duplicates =
               { i \in Index(df_clean) :
                   \E j \in 1..(i - 1) :
                       /\ df_clean[j].date = df_clean[i].date
                       /\ df_clean[j].description = df_clean[i].description
                       /\ df_clean[j].amount = df_clean[i].amount }

\* C17: the pass has run on two rows equal after normalization only and a
\* third equal to the first, and has marked the third alone
C17_NormalizedTwinKept ==
    /\ AfterExactPass
    /\ df_clean = <<ChargeB, ChargeB3, ChargeB>>
    /\ NormalizedDescription[ChargeB.description] = NormalizedDescription[ChargeB3.description]
    /\ exact_duplicates = {3}

Earlier(df, i, j) == df[i].date < df[j].date \/ (df[i].date = df[j].date /\ i < j)

\* the rows at i and j, i the first, are a pair of the fuzzy pass: dates within
\* the day window, |amount| within max(1% of the first, 1.00), similarity of
\* the normalized descriptions at or over the threshold
FuzzyPair(df, i, j) ==
    /\ i # j
    /\ Abs(df[i].date - df[j].date) <= FuzzyDateWindow
    /\ amount_similar(Abs(df[i].amount), Abs(df[j].amount), FuzzyAmountTolerancePct)
    /\ desc_similarity_of(df[i].description, df[j].description) >= FuzzyDescriptionThreshold

\* C19: of a matching pair of the fuzzy pass the row kept is the earlier one by
\* (date, then insertion order) and the row removed the later one: the pass
\* never removes the earlier row of a pair and keeps the later, and every row
\* it removes has an earlier matching row that it keeps
C19_EarlierRowKept ==
    (AfterFuzzyPass /\ df_clean # <<>> /\ dedup_config \in DefaultConfigs
                    /\ dedup_config.aggressive_deduplication)
        => /\ \A i, j \in Index(df_clean) :
                 (FuzzyPair(df_clean, i, j) /\ Earlier(df_clean, i, j)
                      /\ j \notin similar_duplicates)
                     => i \notin similar_duplicates
           /\ \A r \in similar_duplicates :
                 \E k \in Index(df_clean) \ similar_duplicates :
                     FuzzyPair(df_clean, k, r) /\ Earlier(df_clean, k, r)

\* C19: the pass has run on a pair whose later row by date stands first in
\* the table, and has marked the row of the earlier date
C19_EarlierDateRemoved ==
    /\ AfterFuzzyPass
    /\ df_clean = <<ChargeB2, ChargeB>>
    /\ FuzzyPair(df_clean, 2, 1) /\ Earlier(df_clean, 2, 1)
    /\ similar_duplicates = {2}

\* the rows of df that have an earlier row of the same date, description and amount
Repeats(df) == { i \in Index(df) : \E j \in 1..(i - 1) : temp_key(df[j]) = temp_key(df[i]) }

\* C20: a pass that is switched off removes nothing: the rows removed are
\* those the exact pass and the passes switched on found, and with the three
\* switches off the output is the input without its exact duplicates
C20_DisabledPassRemovesNothing ==
    (pc = "returned" /\ df_clean # <<>>)
        => /\ ~dedup_config.remove_credit_card_duplicates => cc_duplicates = {}
           /\ ~dedup_config.remove_transfer_duplicates => transfer_duplicates = {}
           /\ ~dedup_config.aggressive_deduplication => similar_duplicates = {}
           /\ all_duplicates = exact_duplicates \cup cc_duplicates
                                   \cup transfer_duplicates \cup similar_duplicates
           /\ df_final = drop_index(df_clean, all_duplicates)
           /\ (/\ ~dedup_config.remove_credit_card_duplicates
               /\ ~dedup_config.remove_transfer_duplicates
               /\ ~dedup_config.aggressive_deduplication)
                 => df_final = drop_index(df_clean, Repeats(df_clean))

\* C20: with the three switches off a table with a charge and, twice, the
\* payment the charge adds up to has been deduplicated, the payment kept once
C20_PaymentKeptWhenOff ==
    /\ pc = "returned"
    /\ ~dedup_config.remove_credit_card_duplicates
    /\ ~dedup_config.remove_transfer_duplicates
    /\ ~dedup_config.aggressive_deduplication
    /\ df_clean = <<ChargeB, PaymentA, PaymentA>>
    /\ handle_credit_card_duplicates(df_clean).duplicates_to_remove = {2, 3}
    /\ df_final = <<ChargeB, PaymentA>>

\* the closed set of category labels
CategoryLabels ==
    { "Food & Dining", "Groceries", "Transportation", "Shopping", "Bills & Utilities",
      "Healthcare", "Entertainment", "Banking & Fees", "Income", "Personal Care",
      "Education", "Travel", "Transfer", "Other" }

\* C1: categorize_transaction returns one non-empty label, a member of the
\* closed set, whichever step of the pipeline produced it
C1_CategoryInClosedSet ==
    pc = "categorized" => returned_category \in CategoryLabels

\* C1: a description of the merchant table has been categorized by the fuzzy
\* merchant lookup
C1_MerchantLabelReturned ==
    /\ pc = "categorized"
    /\ transaction.description = PyStr("Apple Store")
    /\ transaction.amount = PyFloat(-4217)
    /\ returned_category = "Electronics"

\* the index in df of row k of the table df without the rows of removed
KeptIndex(df, removed, k) ==
    CHOOSE i \in Index(df) \ removed :
        Cardinality({ j \in Index(df) \ removed : j <= i }) = k

\* the indices in df of the rows marked in the table without the rows of removed
Lifted(df, removed, marked) == { KeptIndex(df, removed, k) : k \in marked }

\* C2: the passes run in the order exact, payment-cycle, transfer, fuzzy, and
\* a row an earlier pass marked is excluded from every later pass: each pass
\* marks what it marks on the table without the rows marked before it
C2_EarlierMarksExcluded ==
    (pc = "returned" /\ df_clean # <<>>)
        => /\ dedup_config.remove_credit_card_duplicates
                 => cc_duplicates =
                        Lifted(df_clean, exact_duplicates,
                               handle_credit_card_duplicates(
                                   drop_index(df_clean, exact_duplicates)).duplicates_to_remove)
           /\ dedup_config.remove_transfer_duplicates
                 => transfer_duplicates =
                        Lifted(df_clean, exact_duplicates \cup cc_duplicates,
                               handle_transfer_duplicates(
                                   drop_index(df_clean, exact_duplicates \cup cc_duplicates)))
           /\ dedup_config.aggressive_deduplication
                 => similar_duplicates =
                        Lifted(df_clean,
                               exact_duplicates \cup cc_duplicates \cup transfer_duplicates,
                               find_similar_transactions(
                                   drop_index(df_clean, exact_duplicates \cup cc_duplicates
                                                            \cup transfer_duplicates),
                                   FuzzyDateWindow, FuzzyAmountTolerancePct,
                                   FuzzyDescriptionThreshold))

\* C2: the passes have run on a payment and a charge that stands twice in the
\* table: the copy the exact pass marked was summed by the payment-cycle
\* pass, and the payment was kept
C2_MarkedChargeSummed ==
    /\ pc = "returned"
    /\ dedup_config.remove_credit_card_duplicates
    /\ df_clean = <<PaymentA, ChargeB, ChargeB>>
    /\ exact_duplicates = {3}
    /\ potential_charges(df_clean, 1) = {2, 3}
    /\ cc_duplicates = {}

TransferGroup(df, i) ==
    { j \in Index(df) : /\ matches_transfer(df[j].description)
                        /\ df[j].date = df[i].date
                        /\ Abs(df[j].amount) = Abs(df[i].amount) }

\* C4: of every two or more transfer-keyword rows with the same date and the
\* same |amount| exactly one remains in the output of remove_duplicates, the
\* one with the lowest index
C4_OneTransferRemains ==
    (pc = "returned" /\ df_clean # <<>> /\ dedup_config.remove_transfer_duplicates)
        => \A i \in Index(df_clean) :
               (matches_transfer(df_clean[i].description)
                    /\ Cardinality(TransferGroup(df_clean, i)) >= 2)
                   => TransferGroup(df_clean, i) \ all_duplicates
                          = {SetMin(TransferGroup(df_clean, i))}

\* C4: remove_duplicates has returned for a payment with a transfer keyword, a
\* transfer of the same day and |amount| and a charge that adds up to the
\* payment: neither row of the group remains
C4_NoTransferRemains ==
    /\ pc = "returned"
    /\ dedup_config.remove_transfer_duplicates
    /\ df_clean = <<PaymentG, TransferD, ChargeB>>
    /\ TransferGroup(df_clean, 1) = {1, 2}
    /\ df_final = <<ChargeB>>

\* the orders a batch of documents can be supplied in
Orders(files) ==
    { [i \in Index(files) |-> files[f[i]]] :
          f \in { g \in [Index(files) -> Index(files)] :
                      \A i, j \in Index(files) : g[i] = g[j] => i = j } }

\* the transactions of a table, without the document each was read from
Transactions(df) ==
    { [date |-> df[i].date, description |-> df[i].description,
       amount |-> df[i].amount, category |-> df[i].category] : i \in Index(df) }

\* the call of parse_pdf_statement returns what the function of its arguments gives
ReturnsParsedTable ==
    pc = "done" => result \in sort_values(parsed_table(uploaded_files, dedup_config))

\* C5: for a fixed set of documents and a fixed configuration,
\* parse_pdf_statement yields the same set of transactions for every order the
\* documents are supplied in
C5_OrderIndependent ==
    pc = "done"
        => \A files \in Orders(uploaded_files) :
               Transactions(parsed_table(files, dedup_config)) = Transactions(result)

\* two documents each with one side of a transfer have been parsed, and the
\* side of the first document is the one returned
C5_FirstDocumentWins ==
    /\ pc = "done"
    /\ uploaded_files = <<StatementE, StatementD>>
    /\ dedup_config.remove_transfer_duplicates
    /\ Transactions(result) = Transactions(file_frame(StatementE, <<TransferE>>))
    /\ Transactions(parsed_table(<<StatementD, StatementE>>, dedup_config))
           = Transactions(file_frame(StatementD, <<TransferD>>))

\* the rows of a table not preceded by a row of the same date, description and
\* amount
FirstOccurrences(df) ==
    drop_index(df, { i \in Index(df) :
                       \E j \in 1..(i - 1) : /\ df[j].date = df[i].date
                                             /\ df[j].description = df[i].description
                                             /\ df[j].amount = df[i].amount })

Skipped(pdf_file) ==
    extract_text(pdf_file) = "" \/ extract_transactions_from_text(pdf_file) = <<>>

\* the batch with the document at position k left out
LeftOut(files, k) == SubSeq(files, 1, k - 1) \o SubSeq(files, k + 1, Len(files))

\* C7: a document with no text or no transaction is skipped, and the table
\* returned for the batch is the table returned for the batch with that
\* document left out
C7_SkippedDocumentLeftOut ==
    pc = "done"
        => \A k \in Index(uploaded_files) :
               Skipped(uploaded_files[k])
                   => result \in sort_values(parsed_table(LeftOut(uploaded_files, k),
                                                          dedup_config))

\* a document with no text has been parsed together with a document holding a
\* payment and a charge, aggressive_deduplication off: the payment is removed,
\* and it is kept when the second document is parsed alone
C7_SkippedDocumentCounted ==
    /\ pc = "done"
    /\ uploaded_files = <<Unreadable, StatementAB>>
    /\ dedup_config.remove_credit_card_duplicates
    /\ ~dedup_config.aggressive_deduplication
    /\ Len(all_transactions) = 1
    /\ Len(result) = 1
    /\ Len(parsed_table(<<StatementAB>>, dedup_config)) = 2

\* C8: the table parse_pdf_statement returns is ordered by date ascending, and
\* rows of equal dates keep the order they had in the combined table
C8_StableSortByDate ==
    pc = "done" /\ all_transactions # <<>>
        => /\ \A i, j \in Index(result) : i < j => result[i].date <= result[j].date
           /\ result = sorted_by_date(combined_df)

\* two rows of the same date have been returned in the order opposite to the
\* one they had in the combined table
C8_TieReordered ==
    /\ pc = "done"
    /\ Len(combined_df) = 2
    /\ combined_df[1].date = combined_df[2].date
    /\ combined_df[1] # combined_df[2]
    /\ result = <<combined_df[2], combined_df[1]>>

\* the amount of a call as multi_pass_categorization takes it, in cents
AmountOf(call) == coerce_amount(call.amount).n

\* the description of a call as a string, in lower case
DescriptionOf(call) == lower(coerce_description(call.description))

\* the category of the first of the four keyword rules whose condition holds
\* for the description, NoCategory where none holds
FirstKeywordRule(desc_lower, amount) ==
    IF amount > 0 /\ re_search(income_patterns, desc_lower) THEN "Income"
    ELSE IF amount < 0 /\ re_search(cc_payment_patterns, desc_lower) THEN "Bills & Utilities"
    ELSE IF re_search(transfer_patterns, desc_lower) THEN "Transfer"
    ELSE IF re_search(fee_patterns, desc_lower) THEN "Banking & Fees"
    ELSE NoCategory

\* C9: multi_pass_categorization returns the category of the first rule whose
\* condition holds, income before card payment before transfer before fee
\* before the later steps: a description matching card-payment keywords with
\* a negative amount is 'Bills & Utilities', one matching income keywords with
\* a positive amount is 'Income'
C9_FirstRuleWins ==
    \A k \in Index(history) :
        FirstKeywordRule(DescriptionOf(history[k].transaction), AmountOf(history[k].transaction))
                # NoCategory
            => history[k].category
                   = FirstKeywordRule(DescriptionOf(history[k].transaction),
                                      AmountOf(history[k].transaction))

\* the rules in their order, for the description normalize_merchant_name gives
RuleOrderOnNormalized ==
    \A k \in Index(history) :
        FirstKeywordRule(lower(normalize_merchant_name_of(
                             coerce_description(history[k].transaction.description))),
                         AmountOf(history[k].transaction)) # NoCategory
            => history[k].category
                   = FirstKeywordRule(lower(normalize_merchant_name_of(
                                          coerce_description(history[k].transaction.description))),
                                      AmountOf(history[k].transaction))

\* "CC PAYMENT" has been categorized with a negative amount and is not
\* 'Bills & Utilities': normalize_merchant_name left "CC" of it
C9_PaymentSuffixCut ==
    /\ pc = "categorized"
    /\ transaction.description = PyStr("CC PAYMENT")
    /\ transaction.amount = PyFloat(-4217)
    /\ normalize_merchant_name_of("CC PAYMENT") = "CC"
    /\ re_search(cc_payment_patterns, "cc payment")
    /\ returned_category = "Other"

\* the amount a call is to be categorized with: the number given, in cents,
\* and 0 where the amount is missing or no number
SafeAmount(amount) ==
    IF amount.py = "None" \/ py_float(amount).error # "" THEN 0 ELSE py_float(amount).n

\* the description as a string: the string form of what is no string, the
\* empty string for a missing one
SafeDescription(description) ==
    IF description.py = "str" THEN description.s
    ELSE IF description.py = "None" THEN ""
    ELSE py_str(description)

\* the date, none where it is missing or no datetime
SafeDate(date) == IF date.py = "datetime" THEN date ELSE PyNone

\* the category of a call with the safe defaults in the place of its arguments
SafeCategory(call) ==
    categorize_transaction(PyStr(SafeDescription(call.description)),
                           PyFloat(SafeAmount(call.amount)),
                           SafeDate(call.date))

\* C10: categorize_transaction never raises: every call returns a category,
\* the one it returns for the amount 0.0 where the amount is missing or no
\* number, for the string form of a description that is no string (the empty
\* string for a missing one), and for no date where the date is missing or no
\* datetime
C10_SafeDefaults ==
    \A k \in Index(history) :
        /\ history[k].category \notin {NoCategory, Raised}
        /\ history[k].category = SafeCategory(history[k].transaction)

\* a call with an amount that is no number and a date that is text has
\* returned the category of the merchant
C10_MalformedCallCategorized ==
    /\ pc = "categorized"
    /\ transaction.description = PyStr("Apple Store")
    /\ transaction.amount \in {PyList, PyStr("abc")}
    /\ transaction.date = PyStr("2024-03-01")
    /\ returned_category = "Electronics"

\* C26: handle_credit_card_duplicates partitions the payments it detects:
\* every row for which is_credit_card_payment holds is either marked for
\* removal or recorded in unmatched_payments, never both and never neither,
\* and payments_found is the number of the marked plus the number of the
\* unmatched
C26_PaymentsPartitioned ==
    (AfterCreditCardPass /\ df_clean # <<>> /\ dedup_config.remove_credit_card_duplicates)
        => /\ \A i \in Index(df_clean) :
                 is_credit_card_payment(df_clean[i].description, df_clean[i].amount)
                     <=> ((i \in cc_duplicates) # (i \in cc_info.unmatched_payments))
           /\ cc_duplicates \cap cc_info.unmatched_payments = {}
           /\ cc_info.payments_found
                  = Cardinality(cc_duplicates) + Cardinality(cc_info.unmatched_payments)

\* the pass has met a payment with no charge in its window and a payment with
\* a charge that adds up to it: the first is recorded as unmatched, the second
\* marked
C26_OneMarkedOneUnmatched ==
    /\ AfterCreditCardPass
    /\ dedup_config.remove_credit_card_duplicates
    /\ df_clean = <<PaymentA, PaymentG, ChargeB2>>
    /\ cc_duplicates = {2}
    /\ cc_info.unmatched_payments = {1}
    /\ cc_info.payments_found = 2

\* C29: in the payment-cycle pass a charge justifies the removal of at most
\* one payment: no charge belongs to the candidate charges of two payments
\* that are both marked, and the marked payments add up to no more than 1.15
\* times the charges that matched them
C29_ChargeUsedOnce ==
    (AfterCreditCardPass /\ df_clean # <<>> /\ dedup_config.remove_credit_card_duplicates)
        => /\ \A p, q \in cc_duplicates :
                 p # q => potential_charges(df_clean, p) \cap potential_charges(df_clean, q) = {}
           /\ 100 * Abs(SumAmounts(df_clean, cc_duplicates))
                  <= (100 + CcTolerancePct)
                         * Abs(SumAmounts(df_clean,
                                          UNION { potential_charges(df_clean, p) :
                                                      p \in cc_duplicates }))

\* two payments have been marked for the one charge of the table
C29_TwoPaymentsOneCharge ==
    /\ AfterCreditCardPass
    /\ dedup_config.remove_credit_card_duplicates
    /\ df_clean = <<PaymentA, PaymentG, ChargeB>>
    /\ cc_duplicates = {1, 2}
    /\ potential_charges(df_clean, 1) = {3}
    /\ potential_charges(df_clean, 2) = {3}

\* C28: the deduplication is a fixpoint: remove_duplicates with the same flags
\* on its own output removes no further row
C28_Fixpoint ==
    pc = "returned" => remove_duplicates(df_final, dedup_config) = df_final

\* a payment has been kept as unmatched beside a charge and its copy, the
\* copy has been removed, and a second run removes the payment
C28_SecondRunRemovesPayment ==
    /\ pc = "returned"
    /\ dedup_config.remove_credit_card_duplicates
    /\ df_clean = <<ChargeB, ChargeB, PaymentA>>
    /\ cc_info.unmatched_payments = {3}
    /\ df_final = <<ChargeB, PaymentA>>
    /\ remove_duplicates(df_final, dedup_config) = <<ChargeB>>

FirstLine(candidates, txn) == SetMin({ i \in Index(candidates) : candidates[i] = txn })

\* returned holds every candidate once, by date ascending, and entries of the
\* same date in the order of the first lines they were found in
UniqueInLineOrder(candidates, returned) ==
    /\ \A i, j \in Index(returned) : i # j => returned[i] # returned[j]
    /\ { returned[i] : i \in Index(returned) } = { candidates[i] : i \in Index(candidates) }
    /\ \A i, j \in Index(returned) :
           i < j => \/ returned[i].date < returned[j].date
                    \/ /\ returned[i].date = returned[j].date
                       /\ FirstLine(candidates, returned[i]) < FirstLine(candidates, returned[j])

\* C23: the list extract_transactions_from_text returns for a document holds
\* no two entries of the same date, description and amount; of identical
\* candidates the first in line order is kept; and the list is ordered by date
\* ascending, entries of equal dates in line order
C23_UniqueSortedStable ==
    \A k \in 1..(file_index - 1) :
        UniqueInLineOrder(line_transactions(uploaded_files[k].transactions, 1),
                          extract_transactions_from_text(uploaded_files[k]))

\* a document whose lines repeat a charge after another charge of the same
\* date has been read: the first copy is returned, before the other charge
C23_FirstCopyKeptInLineOrder ==
    /\ file_index = 2
    /\ Len(uploaded_files) = 1
    /\ uploaded_files[1].transactions = <<ChargeB, ChargeB3, ChargeB>>
    /\ extract_transactions_from_text(uploaded_files[1]) = <<ChargeB, ChargeB3>>
    /\ Len(all_transactions) = 1

\* a library gives no text that is not white space: no text, blanks, or an
\* exception
NothingButBlanks(outcome) == outcome \in {"", "blank", "error"}

C27_IncomeOnlyPositive ==
    \A k \in Index(history) :
        history[k].category = "Income" => AmountOf(history[k].transaction) > 0

\* "PAYROLL DEPOSIT" has been categorized with a negative amount: the income
\* rule of step 2 does not apply, and the keyword scores of step 9 make it
\* 'Income'
C27_NegativeIncome ==
    /\ pc = "categorized"
    /\ transaction.description = PyStr("PAYROLL DEPOSIT")
    /\ transaction.amount = PyFloat(-4217)
    /\ priority_category("payroll deposit", -4217) = NoCategory
    /\ keyword_category_of("PAYROLL DEPOSIT") = "Income"
    /\ returned_category = "Income"

\* C24: a similarity threshold outside 0..100 is never applied as given: the
\* default 85 takes its place, in fuzzy_match_merchant and in the fuzzy pass
\* of the deduplicator
C24_ThresholdDefaulted ==
    given_threshold \notin 0..100
        => /\ pc = "found"
                  => similar_duplicates
                         = find_similar_transactions(df_clean, FuzzyDateWindow,
                                                     FuzzyAmountTolerancePct,
                                                     FuzzyDescriptionThreshold)
           /\ pc = "matched"
                  => returned_category
                         = fuzzy_match_merchant(transaction.description.s, DefaultThreshold)

\* the half of it that is about fuzzy_match_merchant
DefaultedInCategorizer ==
    (given_threshold \notin 0..100 /\ pc = "matched")
        => returned_category = fuzzy_match_merchant(transaction.description.s, DefaultThreshold)

\* find_similar_transactions has been called with the threshold 150 on two
\* charges the default threshold makes duplicates, and has marked neither
C24_ThresholdAppliedAsGiven ==
    /\ pc = "found"
    /\ given_threshold = 150
    /\ df_clean = <<ChargeB, ChargeB2>>
    /\ similar_duplicates = {}
    /\ find_similar_transactions(df_clean, FuzzyDateWindow, FuzzyAmountTolerancePct,
                                 FuzzyDescriptionThreshold) = {2}

(***************************************************************************)
(* C22, C25: the year of a parsed date                                     *)
(***************************************************************************)
\* the texts of DateTexts that are a date written without a year, with the
\* month and the day they name
YearlessDates ==
    { [text |-> "05/10", month |-> 5, day |-> 10],
      [text |-> "12/28", month |-> 12, day |-> 28],
      [text |-> "02/29", month |-> 2, day |-> 29],
      [text |-> "7/4", month |-> 7, day |-> 4],
      [text |-> "05-10", month |-> 5, day |-> 10],
      [text |-> "Jun 15", month |-> 6, day |-> 15],
      [text |-> "Date: 05/10", month |-> 5, day |-> 10],
      [text |-> "(05/10),", month |-> 5, day |-> 10] }

\* whether the calendar has the day
IsDate(dt) == dt.month \in 1..12 /\ dt.day \in 1..days_in_month(dt.year, dt.month)

\* the month and day in the year of the statement, or in the year before
\* where that lies more than 30 days after the current date
InInferredYear(month, day) ==
    IF toordinal(Date(statement_year, month, day)) > toordinal(current_date) + 30
    THEN Date(statement_year - 1, month, day)
    ELSE Date(statement_year, month, day)

\* C22: parse_date on a date written without a year returns that month and day
\* in the inferred year of the statement, unless that date lies more than 30
\* days after the current date, in which case it returns it in the year before
C22_YearlessInStatementYear ==
    pc = "parsed" =>
        \A t \in YearlessDates :
            (/\ line = t.text
             /\ IsDate(Date(statement_year, t.month, t.day))
             /\ IsDate(InInferredYear(t.month, t.day)))
            => date_found = InInferredYear(t.month, t.day)

\* C22 holds of every date but the 29th of February
C22_ExceptLeapDay ==
    pc = "parsed" =>
        \A t \in YearlessDates :
            (/\ line = t.text
             /\ <<t.month, t.day>> # <<2, 29>>)
            => date_found = InInferredYear(t.month, t.day)

\* "02/29" of a statement of the leap year 2024, parsed in June 2024, is no date
C22_LeapDayNotParsed ==
    /\ pc = "parsed"
    /\ line = "02/29"
    /\ statement_year = 2024
    /\ current_date = Today
    /\ date_found = NoDate

\* the lines of StatementLines whose date is written with a year
ExplicitYearLines ==
    { [line |-> PurchaseLine("05/10/2023"), year |-> 2023],
      [line |-> PurchaseLine("12/28/23"), year |-> 2023],
      [line |-> PurchaseLine("02/29/2024"), year |-> 2024],
      [line |-> PurchaseLine("January 15, 2024"), year |-> 2024] }

\* C25: in extract_transactions_from_text the date found on a line whose date
\* is written with a year is in that year, whatever the inferred year of the
\* statement, which is applied only to dates written without a year
C25_ExplicitYearKept ==
    pc = "date_found" =>
        \A l \in ExplicitYearLines : line = l.line => date_found.year = l.year

\* the line of 05/10/2023 in a statement of 2024 is dated 2024-05-10
C25_ExplicitYearReplaced ==
    /\ pc = "date_found"
    /\ line = PurchaseLine("05/10/2023")
    /\ statement_year = 2024
    /\ date_found = Date(2024, 5, 10)

=============================================================================
